---- MODULE Spec2Model ----
(***************************************************************************)
(* A model of the MCP tool servers of this repository.                     *)
(*                                                                         *)
(*   SpecFs    the file tools of fs_server.py / developer_server.py        *)
(*             (validate_path and the handlers built on it) over an        *)
(*             abstract POSIX file tree.                                   *)
(*   SpecGit   git_execute of git_server.py and the git tools of           *)
(*             developer_server.py on top of run_git_command.              *)
(*   SpecExec  the execution-record store and the timeout paths of the     *)
(*             code-execution servers.                                     *)
(*   SpecBox   the Docker and WSL code-execution servers: start-up,        *)
(*             execute_python_file, the pull-and-retry path, shutdown.     *)
(*             SpecBoxLive adds fairness of the handler's steps.           *)
(*   SpecGithub  the GitHub server's lazy client and its handlers.         *)
(*   SpecDocs  the documentation cache of mcp_info_server.py.              *)
(*   SpecConfig  the log tools and write_config of claude_config_server.py.*)
(*   SpecPes   the execution ids of python_execution_server.py.            *)
(*   SpecProject  dev_create_project_structure of developer_server.py.     *)
(*                                                                         *)
(* Strings are modelled as sequences of chunks (".", "env", "a", ...), a   *)
(* path string as the sequence of its "/"-separated segments, so that      *)
(* normpath, basename, splitext, endswith and split are computed the way   *)
(* posixpath computes them.                                                *)
(***************************************************************************)
EXTENDS Integers, Sequences, FiniteSets, TLC

VARIABLES
    fs,          \* the file tree: absolute component list -> node
    fsOp,        \* name of the last file tool called
    fsResult,    \* what that tool returned
    touched,     \* the absolute paths that tool handed to the operating system
    gitOp,       \* name of the last git tool called
    gitArg,      \* its arguments: [command, subpath]
    gitResult,   \* what it returned, or the exception that escaped from it
    lastSpawn,   \* the git subprocess that call started: [cmd, cwd], or NoSpawn
    mapFile,     \* python_server: contents of execution_mappings.json (id -> record)
    saved,       \* history: id -> the record handed to save_execution_result
    nextId,      \* the next fresh uuid
    writer,      \* per concurrent writer: its position in save_execution_result
    execOp,      \* last code-execution tool called
    execReply,   \* what it returned
    server,      \* which code-execution server program is running
    transport,   \* how it is served: "stdio" (one request at a time) or "sse"
    running,     \* ids of the executions whose external process is still running
    variant,     \* container servers: python_server_docker or python_server_wsl
    phase,       \* "starting", "serving", "stopping", "stopped"
    client,      \* python_server_docker: docker_client ("unset", "None", "client")
    appState,    \* python_server_wsl: AppState's wsl_distro, docker_available, ...
    probeTask,   \* python_server_wsl: the background initialization task
    probeFailed, \* history: the start-up probe of the backend failed
    engineUp,    \* environment: the container engine answers now
    imagePresent,\* environment: the base image is present in the engine
    containers,  \* environment: labelled containers, id -> [status, old]
    inv,         \* the tool invocation in progress and its external calls so far
    boxOp,       \* last tool of the container server that returned
    boxReply,    \* what it returned
    cleaned,     \* history: the containers a cleanup pass removed
    results,     \* python_server_wsl: state.execution_results (ids)
    persisted,   \* python_server_wsl: what shutdown wrote to the mapping file
    g,           \* github_server: the client ("None" or "client")
    ghOp,        \* last github tool or resource called
    ghReply,     \* what it returned
    ghCalls,     \* remote calls made by handlers so far
    disk,        \* mcp_info_server: the documentation files, path -> content
    CONTENT_CACHE, \* mcp_info_server: CONTENT_CACHE
    firstRead,   \* history: path -> content of its first successful read
    docOp,       \* last path given to read_file_content
    docReply,    \* what it returned
    edits,       \* how many times the files changed
    wslWorking,  \* environment: the WSL_DISTRIBUTIONS entries that pass the test
    config,      \* claude_config_server: content of CONFIG_PATH, or Absent
    backups,     \* contents of the backup files write_config has written
    logs,        \* LOGS_DIR: file name -> its lines
    cfgOp,       \* last tool of claude_config_server called, with its arguments
    cfgReply,    \* what it returned
    cfgBefore,   \* history: content of CONFIG_PATH before that call
    pesTree,     \* python_execution_server: the directories and files of the host
    issued,      \* history: the ids write_python_file has returned
    cleanedIds,  \* history: the ids clean_execution reported as cleaned
    pesOp,       \* last tool of python_execution_server called, with its arguments
    pesReply,    \* what it returned
    removedDirs, \* the directories that call deleted
    mounted      \* the directory that call mounted into a container, or NothingMounted

fsVars == <<fs, fsOp, fsResult, touched>>
gitVars == <<gitOp, gitArg, gitResult, lastSpawn>>
execVars == <<mapFile, saved, nextId, writer, execOp, execReply, server, transport, running>>
boxVars ==
    <<variant, phase, client, appState, probeTask, probeFailed, engineUp, imagePresent,
      containers, inv, boxOp, boxReply, cleaned, results, persisted, wslWorking>>
ghVars == <<g, ghOp, ghReply, ghCalls>>
docVars == <<disk, CONTENT_CACHE, firstRead, docOp, docReply, edits>>
cfgVars == <<config, backups, logs, cfgOp, cfgReply, cfgBefore>>
pesVars == <<pesTree, issued, cleanedIds, pesOp, pesReply, removedDirs, mounted>>
restVars == <<cfgVars, pesVars>>
laterVars == <<boxVars, ghVars, docVars, restVars>>
vars == <<fsVars, gitVars, execVars, laterVars>>

(***************************************************************************)
(* Strings and paths                                                       *)
(***************************************************************************)
Empty == <<>>
Dot == <<".">>
DotDot == <<".", ".">>
DotEnv == <<".", "env">>
NameA == <<"a">>
AEnv == <<"a", ".", "env">>
Home == <<"home">>
Base == <<"base">>

\* The segments callers build their path arguments from.
SegNames == {Empty, Dot, DotDot, DotEnv, NameA, AEnv}

\* Longest path argument, in segments.
MaxSegs == 2

Paths == UNION {[1..n -> SegNames] : n \in 1..MaxSegs}

\* The path arguments the tools are called with:
\* "", "a", "a/a", "..", "../a", ".env", "a/.env", ".env/..", "a.env".
CallPaths ==
    {<<Empty>>, <<NameA>>, <<NameA, NameA>>, <<DotDot>>, <<DotDot, NameA>>,
     <<DotEnv>>, <<NameA, DotEnv>>, <<DotEnv, DotDot>>, <<AEnv>>}

\* BASE_DIR = "/home/base", split at "/".
BASE_DIR == <<Empty, Home, Base>>

\* str.startswith('/') on a split path.
StartsWithSlash(p) == Len(p) >= 2 /\ p[1] = Empty

\* posixpath.join(a, p) for a non-empty a that does not end in "/".
PathJoin(a, p) == IF StartsWithSlash(p) THEN p ELSE a \o p

\* The component loop of posixpath.normpath.
RECURSIVE NormComps(_, _, _)
NormComps(comps, new, slashes) ==
    IF comps = <<>> THEN new
    ELSE LET comp == Head(comps)
             rest == Tail(comps)
         IN  IF comp = Empty \/ comp = Dot
               THEN NormComps(rest, new, slashes)
             ELSE IF comp # DotDot
                     \/ (slashes = 0 /\ new = <<>>)
                     \/ (new # <<>> /\ new[Len(new)] = DotDot)
               THEN NormComps(rest, Append(new, comp), slashes)
             ELSE IF new # <<>>
               THEN NormComps(rest, SubSeq(new, 1, Len(new) - 1), slashes)
             ELSE NormComps(rest, new, slashes)

\* initial_slashes of posixpath.normpath: 0, 1, or 2 for exactly two.
InitialSlashes(p) ==
    IF ~StartsWithSlash(p) THEN 0
    ELSE IF Len(p) >= 3 /\ p[2] = Empty /\ ~(Len(p) >= 4 /\ p[3] = Empty) THEN 2
    ELSE 1

\* The components posixpath.normpath keeps.
NormpathComps(p) == NormComps(p, <<>>, InitialSlashes(p))

\* posixpath.normpath, as a split string.
Normpath(p) ==
    LET n == InitialSlashes(p)
        c == NormpathComps(p)
    IN  IF p = <<Empty>> THEN <<Dot>>
        ELSE IF n = 0 THEN (IF c = <<>> THEN <<Dot>> ELSE c)
        ELSE IF c = <<>> THEN [i \in 1..(n + 1) |-> Empty]
        ELSE [i \in 1..n |-> Empty] \o c

\* posixpath.basename: what follows the last "/".
Basename(p) == p[Len(p)]

\* str.endswith('.env').
EndsWithEnv(s) == Len(s) >= 2 /\ s[Len(s) - 1] = "." /\ s[Len(s)] = "env"

\* posixpath.splitext(...)[1] of a name: from the last dot, unless only dots precede it.
SplitextExt(s) ==
    LET dots == {i \in 1..Len(s) : s[i] = "."}
    IN  IF dots = {} THEN Empty
        ELSE LET d == CHOOSE i \in dots : \A j \in dots : j <= i
             IN  IF \E j \in 1..(d - 1) : s[j] # "."
                   THEN SubSeq(s, d, Len(s))
                   ELSE Empty

\* The file the operating system resolves an absolute path string to.
Resolve(p) == SelectSeq(p, LAMBDA s : s # Empty)

BaseNode == Resolve(BASE_DIR)

IsPrefix(a, b) == Len(a) <= Len(b) /\ SubSeq(b, 1, Len(a)) = a

\* A location inside the base directory (the base directory itself included).
InsideBase(node) == IsPrefix(BaseNode, node)

(***************************************************************************)
(* validate_path                                                           *)
(***************************************************************************)
FullPath(path) == Normpath(PathJoin(BASE_DIR, path))

\* First check: the final component is .env, has extension .env or ends in .env.
EnvFile(path) ==
    LET b == Basename(FullPath(path))
    IN  b = DotEnv \/ SplitextExt(b) = DotEnv \/ EndsWithEnv(b)

\* Second check: a segment of the normalized argument is .env.
EnvSegment(path) == \E i \in 1..Len(Normpath(path)) : Normpath(path)[i] = DotEnv

\* validate_path without its first check.
SegmentCheckOnly(path) ==
    IF EnvSegment(path) THEN [ok |-> FALSE, err |-> "Access denied: .env directories"]
    ELSE [ok |-> TRUE, full |-> FullPath(path)]

\* validate_path: the ValueError it raises, or the full path it returns.
validate_path(path) ==
    IF EnvFile(path) THEN [ok |-> FALSE, err |-> "Access denied: .env files"]
    ELSE IF EnvSegment(path) THEN [ok |-> FALSE, err |-> "Access denied: .env directories"]
    ELSE [ok |-> TRUE, full |-> FullPath(path)]

(***************************************************************************)
(* The file tree and the operating-system calls the handlers make          *)
(***************************************************************************)
DirNode == [kind |-> "dir", data |-> <<>>]
FileNode(bytes) == [kind |-> "file", data |-> bytes]

Root == <<>>

Exists(f, n) == n \in DOMAIN f
IsFile(f, n) == n \in DOMAIN f /\ f[n].kind = "file"
IsDir(f, n) == n \in DOMAIN f /\ f[n].kind = "dir"

\* os.path.dirname of a normalized absolute path; dirname("/") is "/".
Dirname(n) == IF n = Root THEN Root ELSE SubSeq(n, 1, Len(n) - 1)

Prefixes(n) == {SubSeq(n, 1, k) : k \in 0..Len(n)}

Children(f, n) == {c \in DOMAIN f : c # Root /\ Dirname(c) = n}

Below(f, n) == {c \in DOMAIN f : IsPrefix(n, c)}

\* os.makedirs(n, exist_ok=True) raises when n or one of its ancestors is a file.
MakedirsOk(f, n) == \A a \in Prefixes(n) : Exists(f, a) => IsDir(f, a)

Makedirs(f, n) ==
    [x \in DOMAIN f \cup Prefixes(n) |-> IF x \in DOMAIN f THEN f[x] ELSE DirNode]

\* open(n, 'w') + write: creates or truncates the file.
PutFile(f, n, bytes) ==
    [x \in DOMAIN f \cup {n} |-> IF x = n THEN FileNode(bytes) ELSE f[x]]

Remove(f, gone) == [x \in DOMAIN f \ gone |-> f[x]]

(***************************************************************************)
(* Text-mode file objects: open(..., 'w'/'r', encoding='utf-8') with the   *)
(* default newline=None                                                    *)
(***************************************************************************)
\* os.linesep on POSIX.
OsLinesep == <<"LF">>

\* Writing translates every "\n" to os.linesep.
RECURSIVE TranslateOnWrite(_)
TranslateOnWrite(text) ==
    IF text = <<>> THEN <<>>
    ELSE IF Head(text) = "LF" THEN OsLinesep \o TranslateOnWrite(Tail(text))
    ELSE <<Head(text)>> \o TranslateOnWrite(Tail(text))

\* Reading translates "\r\n" and a lone "\r" to "\n" (universal newlines).
RECURSIVE UniversalNewlines(_)
UniversalNewlines(bytes) ==
    IF bytes = <<>> THEN <<>>
    ELSE IF Head(bytes) = "CR"
      THEN IF Len(bytes) >= 2 /\ bytes[2] = "LF"
             THEN <<"LF">> \o UniversalNewlines(Tail(Tail(bytes)))
             ELSE <<"LF">> \o UniversalNewlines(Tail(bytes))
    ELSE <<Head(bytes)>> \o UniversalNewlines(Tail(bytes))

\* A byte sequence that is valid UTF-8 (the chunk "BAD" stands for an invalid byte).
Decodable(bytes) == \A i \in 1..Len(bytes) : bytes[i] # "BAD"

\* The texts callers write.
Contents == {<<"x">>, <<"x", "CR", "LF", "y">>}

(***************************************************************************)
(* The file tools (fs_server.py; developer_server.py has the same bodies)  *)
(***************************************************************************)
Reply(f, msg, text, t) ==
    [fs |-> f, msg |-> msg, text |-> text, listing |-> {}, touched |-> t]

IsError(msg) ==
    msg \in {"Error: Access denied: .env files", "Error: Access denied: .env directories",
             "Error: does not exist", "Error: is not a file", "Error: is not a directory",
             "Error: not a text file", "Error: Failed to read file",
             "Error: Failed to write file", "Error: Failed to delete file",
             "Error: already exists as a file", "Error: Failed to create directory",
             "Error: Directory is not empty", "Error: Failed to delete directory",
             "Error: Source does not exist", "Error: Source is not a file",
             "Error: Destination already exists", "Error: Failed to copy file",
             "Error: Failed to list files", "Error: Failed to get file info"}

\* A refusal that comes only after the base directory has been looked at.
DeniedLate(f, v) ==
    Reply(f, IF v.err = "Access denied: .env files"
               THEN "Error: Access denied: .env files"
               ELSE "Error: Access denied: .env directories", <<>>, {BaseNode})

\* except ValueError as e: return f"Error: {str(e)}"
Denied(f, v) ==
    Reply(f, IF v.err = "Access denied: .env files"
               THEN "Error: Access denied: .env files"
               ELSE "Error: Access denied: .env directories", <<>>, {})

\* read_file with the isfile test ahead of the exists test.
read_file_isfile_first(f, path) ==
    LET v == validate_path(path) IN
    IF ~v.ok THEN Denied(f, v)
    ELSE LET n == Resolve(v.full) IN
         IF ~IsFile(f, n) THEN Reply(f, "Error: is not a file", <<>>, {n})
         ELSE IF ~Exists(f, n) THEN Reply(f, "Error: does not exist", <<>>, {n})
         ELSE IF ~Decodable(f[n].data) THEN Reply(f, "Error: not a text file", <<>>, {n})
         ELSE Reply(f, "content", UniversalNewlines(f[n].data), {n})

\* read_file: open(full_path, 'r', encoding='utf-8').read() raises UnicodeDecodeError
\* on bytes that are not UTF-8.
read_file(f, path) ==
    LET v == validate_path(path) IN
    IF ~v.ok THEN Denied(f, v)
    ELSE LET n == Resolve(v.full) IN
         IF ~Exists(f, n) THEN Reply(f, "Error: does not exist", <<>>, {n})
         ELSE IF ~IsFile(f, n) THEN Reply(f, "Error: is not a file", <<>>, {n})
         ELSE IF ~Decodable(f[n].data) THEN Reply(f, "Error: not a text file", <<>>, {n})
         ELSE Reply(f, "content", UniversalNewlines(f[n].data), {n})

write_file(f, path, content) ==
    LET v == validate_path(path) IN
    IF ~v.ok THEN Denied(f, v)
    ELSE LET n == Resolve(v.full)
             d == Dirname(n)
         IN  IF ~MakedirsOk(f, d) THEN Reply(f, "Error: Failed to write file", <<>>, {n})
             ELSE IF IsDir(Makedirs(f, d), n)
               THEN Reply(Makedirs(f, d), "Error: Failed to write file", <<>>, {n})
             ELSE Reply(PutFile(Makedirs(f, d), n, TranslateOnWrite(content)),
                        "written successfully", <<>>, {n})

delete_file(f, path) ==
    LET v == validate_path(path) IN
    IF ~v.ok THEN Denied(f, v)
    ELSE LET n == Resolve(v.full) IN
         IF ~Exists(f, n) THEN Reply(f, "Error: does not exist", <<>>, {n})
         ELSE IF ~IsFile(f, n) THEN Reply(f, "Error: is not a file", <<>>, {n})
         ELSE Reply(Remove(f, {n}), "deleted successfully", <<>>, {n})

create_directory(f, path) ==
    LET v == validate_path(path) IN
    IF ~v.ok THEN Denied(f, v)
    ELSE LET n == Resolve(v.full) IN
         IF IsDir(f, n) THEN Reply(f, "Directory already exists", <<>>, {n})
         ELSE IF Exists(f, n) THEN Reply(f, "Error: already exists as a file", <<>>, {n})
         ELSE IF ~MakedirsOk(f, n) THEN Reply(f, "Error: Failed to create directory", <<>>, {n})
         ELSE Reply(Makedirs(f, n), "created successfully", <<>>, {n})

\* An rmdir that does not notice the entries of the directory.
RmdirAnyway(f, n) == Reply(Remove(f, Below(f, n)), "deleted successfully", <<>>, {n})

\* os.rmdir raises OSError "Directory not empty" on a directory that has entries;
\* the handler turns it into its "is not empty" message.
Rmdir(f, n) ==
    IF Children(f, n) # {} THEN Reply(f, "Error: Directory is not empty", <<>>, {n})
    ELSE Reply(Remove(f, {n}), "deleted successfully", <<>>, {n})

\* shutil.rmtree removes n and everything below it.
Rmtree(f, n) == Reply(Remove(f, Below(f, n)), "deleted successfully", <<>>, {n})

delete_directory(f, path, recursive) ==
    LET v == validate_path(path) IN
    IF ~v.ok THEN Denied(f, v)
    ELSE LET n == Resolve(v.full) IN
         IF ~Exists(f, n) THEN Reply(f, "Error: does not exist", <<>>, {n})
         ELSE IF ~IsDir(f, n) THEN Reply(f, "Error: is not a directory", <<>>, {n})
         ELSE IF recursive THEN Rmtree(f, n)
         ELSE Rmdir(f, n)

\* The listing: one entry per child, its name and type.
Listing(f, n) ==
    {[name |-> c[Len(c)], type |-> IF IsDir(f, c) THEN "directory" ELSE "file"] :
        c \in Children(f, n)}

\* list_files that takes a directory without entries for a failure.
list_files_entries_required(f, directory) ==
    LET v == validate_path(directory) IN
    IF ~v.ok THEN Denied(f, v)
    ELSE LET n == Resolve(v.full) IN
         IF ~Exists(f, n) THEN Reply(f, "Error: does not exist", <<>>, {n})
         ELSE IF ~IsDir(f, n) THEN Reply(f, "Error: is not a directory", <<>>, {n})
         ELSE IF Children(f, n) = {} THEN Reply(f, "Error: Failed to list files", <<>>, {n})
         ELSE [Reply(f, "listing", <<>>, {n}) EXCEPT !.listing = Listing(f, n)]

list_files(f, directory) ==
    LET v == validate_path(directory) IN
    IF ~v.ok THEN Denied(f, v)
    ELSE LET n == Resolve(v.full) IN
         IF ~Exists(f, n) THEN Reply(f, "Error: does not exist", <<>>, {n})
         ELSE IF ~IsDir(f, n) THEN Reply(f, "Error: is not a directory", <<>>, {n})
         ELSE [Reply(f, "listing", <<>>, {n}) EXCEPT !.listing = Listing(f, n)]

file_info(f, path) ==
    LET v == validate_path(path) IN
    IF ~v.ok THEN Denied(f, v)
    ELSE LET n == Resolve(v.full) IN
         IF ~Exists(f, n) THEN Reply(f, "Error: does not exist", <<>>, {n})
         ELSE Reply(f, "info", <<f[n].kind>>, {n})

\* A copy that does not look whether the destination exists.
CopyOverwrite(f, s, d) ==
    IF ~MakedirsOk(f, Dirname(d)) THEN Reply(f, "Error: Failed to copy file", <<>>, {s, d})
    ELSE Reply(PutFile(Makedirs(f, Dirname(d)), d, f[s].data),
               "copied successfully", <<>>, {s, d})

\* copy_file from the makedirs of the destination's directory on: the destination
\* check, then shutil.copy2.
CopyTo(f, s, d) ==
    IF ~MakedirsOk(f, Dirname(d)) THEN Reply(f, "Error: Failed to copy file", <<>>, {s, d})
    ELSE IF Exists(Makedirs(f, Dirname(d)), d)
      THEN Reply(Makedirs(f, Dirname(d)), "Error: Destination already exists", <<>>, {s, d})
    ELSE Reply(PutFile(Makedirs(f, Dirname(d)), d, f[s].data),
               "copied successfully", <<>>, {s, d})

copy_file(f, source_path, destination_path) ==
    LET vs == validate_path(source_path)
        vd == validate_path(destination_path)
    IN  IF ~vs.ok THEN Denied(f, vs)
        ELSE IF ~vd.ok THEN Denied(f, vd)
        ELSE LET s == Resolve(vs.full)
                 d == Resolve(vd.full)
             IN  IF ~Exists(f, s) THEN Reply(f, "Error: Source does not exist", <<>>, {s})
                 ELSE IF ~IsFile(f, s) THEN Reply(f, "Error: Source is not a file", <<>>, {s})
                 ELSE CopyTo(f, s, d)

(***************************************************************************)
(* SpecFs: the file tools as a state machine                               *)
(***************************************************************************)
\* The base directory exists and is empty (os.makedirs(BASE_DIR, exist_ok=True)).
EmptyBase ==
    [n \in {Root, <<Home>>, BaseNode} |-> DirNode]

\* A tree with a file outside the base directory and a binary file inside it.
UsedBase ==
    [n \in {Root, <<Home>>, BaseNode, <<Home, NameA>>, BaseNode \o <<NameA>>} |->
        IF n = <<Home, NameA>> THEN FileNode(<<"x">>)
        ELSE IF n = BaseNode \o <<NameA>> THEN FileNode(<<"BAD">>)
        ELSE DirNode]

NoReply == [msg |-> "none", text |-> <<>>, listing |-> {}]

FsIdle ==
    /\ fs = EmptyBase
    /\ fsOp = "none"
    /\ fsResult = NoReply
    /\ touched = {}

GitIdle ==
    /\ gitOp = "none"
    /\ gitArg = <<>>
    /\ gitResult = <<>>
    /\ lastSpawn = <<>>

\* The handlers that can be in flight at once.
Handlers == {"h1", "h2"}

NoMappings == <<>>

NoInfo == [exit_code |-> 0, stdout |-> <<>>, stderr |-> <<>>, finished |-> TRUE]

IdleWriter == [pc |-> "idle", id |-> 0, info |-> NoInfo, mappings |-> NoMappings]

\* A handler's return value.  handler names the handler that returned it.
ExecReply(msg, id, has_exit_code, exit_code, stdout, stderr, timed_out, handler) ==
    [msg |-> msg, id |-> id, has_exit_code |-> has_exit_code, exit_code |-> exit_code,
     stdout |-> stdout, stderr |-> stderr, timed_out |-> timed_out, handler |-> handler]

NoExecReply == ExecReply("", 0, FALSE, 0, <<>>, <<>>, FALSE, "none")

ExecIdle ==
    /\ mapFile = NoMappings
    /\ saved = NoMappings
    /\ nextId = 1
    /\ writer = [h \in Handlers |-> IdleWriter]
    /\ execOp = "none"
    /\ execReply = NoExecReply
    /\ server = "none"
    /\ transport = "stdio"
    /\ running = {}

BoxIdle ==
    /\ variant = "none"
    /\ phase = "none"
    /\ client = "unset"
    /\ appState = <<>>
    /\ probeTask = "none"
    /\ probeFailed = FALSE
    /\ engineUp = FALSE
    /\ imagePresent = FALSE
    /\ containers = <<>>
    /\ inv = <<>>
    /\ boxOp = "none"
    /\ boxReply = <<>>
    /\ cleaned = {}
    /\ results = {}
    /\ persisted = <<>>
    /\ wslWorking = {}

CfgIdle ==
    /\ config = "none"
    /\ backups = {}
    /\ logs = <<>>
    /\ cfgOp = <<>>
    /\ cfgReply = <<>>
    /\ cfgBefore = "none"

PesIdle ==
    /\ pesTree = {}
    /\ issued = {}
    /\ cleanedIds = {}
    /\ pesOp = <<>>
    /\ pesReply = <<>>
    /\ removedDirs = {}
    /\ mounted = <<>>

RestIdle == CfgIdle /\ PesIdle

GhIdle ==
    /\ g = "unset"
    /\ ghOp = "none"
    /\ ghReply = "none"
    /\ ghCalls = 0

DocIdle ==
    /\ disk = <<>>
    /\ CONTENT_CACHE = <<>>
    /\ firstRead = <<>>
    /\ docOp = <<>>
    /\ docReply = <<>>
    /\ edits = 0

InitFs ==
    /\ fs \in {EmptyBase, UsedBase}
    /\ fsOp = "none"
    /\ fsResult = NoReply
    /\ touched = {}
    /\ GitIdle
    /\ ExecIdle
    /\ BoxIdle /\ GhIdle /\ DocIdle /\ RestIdle

\* What a handler hands back to the transport layer.
Shown(r) == [msg |-> r.msg, text |-> r.text, listing |-> r.listing]

ReadFile ==
    \E p \in CallPaths :
        LET r == read_file(fs, p)
        IN  /\ fs' = r.fs
            /\ fsOp' = "read_file"
            /\ fsResult' = Shown(r)
            /\ touched' = r.touched
            /\ UNCHANGED <<gitVars, execVars, laterVars>>

WriteFile ==
    \E p \in CallPaths, c \in Contents :
        LET r == write_file(fs, p, c)
        IN  /\ fs' = r.fs
            /\ fsOp' = "write_file"
            /\ fsResult' = Shown(r)
            /\ touched' = r.touched
            /\ UNCHANGED <<gitVars, execVars, laterVars>>

DeleteFile ==
    \E p \in CallPaths :
        LET r == delete_file(fs, p)
        IN  /\ fs' = r.fs
            /\ fsOp' = "delete_file"
            /\ fsResult' = Shown(r)
            /\ touched' = r.touched
            /\ UNCHANGED <<gitVars, execVars, laterVars>>

CreateDirectory ==
    \E p \in CallPaths :
        LET r == create_directory(fs, p)
        IN  /\ fs' = r.fs
            /\ fsOp' = "create_directory"
            /\ fsResult' = Shown(r)
            /\ touched' = r.touched
            /\ UNCHANGED <<gitVars, execVars, laterVars>>

DeleteDirectory ==
    \E p \in CallPaths, recursive \in BOOLEAN :
        LET r == delete_directory(fs, p, recursive)
        IN  /\ fs' = r.fs
            /\ fsOp' = "delete_directory"
            /\ fsResult' = Shown(r)
            /\ touched' = r.touched
            /\ UNCHANGED <<gitVars, execVars, laterVars>>

ListFiles ==
    \E p \in CallPaths :
        LET r == list_files(fs, p)
        IN  /\ fs' = r.fs
            /\ fsOp' = "list_files"
            /\ fsResult' = Shown(r)
            /\ touched' = r.touched
            /\ UNCHANGED <<gitVars, execVars, laterVars>>

FileInfo ==
    \E p \in CallPaths :
        LET r == file_info(fs, p)
        IN  /\ fs' = r.fs
            /\ fsOp' = "file_info"
            /\ fsResult' = Shown(r)
            /\ touched' = r.touched
            /\ UNCHANGED <<gitVars, execVars, laterVars>>

CopyFile ==
    \E s \in CallPaths, d \in CallPaths :
        LET r == copy_file(fs, s, d)
        IN  /\ fs' = r.fs
            /\ fsOp' = "copy_file"
            /\ fsResult' = Shown(r)
            /\ touched' = r.touched
            /\ UNCHANGED <<gitVars, execVars, laterVars>>

NextFs ==
    \/ ReadFile
    \/ WriteFile
    \/ DeleteFile
    \/ CreateDirectory
    \/ DeleteDirectory
    \/ ListFiles
    \/ FileInfo
    \/ CopyFile

SpecFs == InitFs /\ [][NextFs]_vars

\* Every directory entry lies in an existing directory.
TreeOk == \A n \in DOMAIN fs : n = Root \/ IsDir(fs, Dirname(n))

(***************************************************************************)
(* Claims about the path guard and the file tools (checked under SpecFs)   *)
(***************************************************************************)
AccessDenied(msg) ==
    msg \in {"Error: Access denied: .env files", "Error: Access denied: .env directories"}

Performed(msg) ==
    msg \in {"content", "written successfully", "deleted successfully", "listing",
             "created successfully", "copied successfully", "info"}

\* C1: the path guard confines the file tools to the base directory: every
\* location a file tool hands to the operating system lies inside the base
\* directory (a path that escapes through ".." is rejected).
C1_ToolsStayInsideBase == Performed(fsResult.msg) => \A n \in touched : InsideBase(n)

RawEnvPath(p) ==
    \/ \E i \in 1..Len(p) : p[i] = DotEnv
    \/ EndsWithEnv(Basename(p))

\* C2 as stated: every path argument that has a segment .env, or whose final
\* component is or ends in .env, is rejected by validate_path.
C2_EveryEnvSegmentRejected ==
    \A p \in Paths : RawEnvPath(p) => AccessDenied(read_file(fs, p).msg)

NormalizedEnvPath(p) == RawEnvPath(Normpath(p))

\* C2 as amended: every path argument whose normalized form (os.path.normpath) has
\* a segment .env, or whose normalized form's final component is or ends in .env,
\* is rejected by validate_path with an access-denied error, wherever it points.
C2_NormalizedEnvRejected ==
    \A p \in Paths :
        NormalizedEnvPath(p) =>
            /\ ~validate_path(p).ok
            /\ AccessDenied(read_file(fs, p).msg)
            /\ AccessDenied(write_file(fs, p, <<"x">>).msg)

\* A file tool has just been refused by the guard.
C2_Witness == fsOp = "read_file" /\ AccessDenied(fsResult.msg)

\* C5: write_file(p, c) followed at once by read_file(p) returns exactly c, for
\* every accepted path p and every text c.
C5_WriteThenReadReturnsContent ==
    \A p \in CallPaths, c \in Contents :
        LET w == write_file(fs, p, c)
        IN  w.msg = "written successfully" =>
                LET r == read_file(w.fs, p)
                IN  r.msg = "content" /\ r.text = c

\* C6: copy_file onto a destination that exists returns an error and leaves the
\* whole file tree, the destination included, as it was.
C6_CopyOntoExistingLeavesTree ==
    \A s \in CallPaths, d \in CallPaths :
        LET vd == validate_path(d)
        IN  (vd.ok /\ Exists(fs, Resolve(vd.full))) =>
                LET r == copy_file(fs, s, d)
                IN  IsError(r.msg) /\ r.fs = fs

\* copy_file has just refused to overwrite an existing destination.
C6_Witness == fsOp = "copy_file" /\ fsResult.msg = "Error: Destination already exists"

\* C7: delete_directory on a directory that has entries fails with the "not empty"
\* error and changes nothing when recursive is false, and removes the directory and
\* everything below it when recursive is true.
C7_DeleteNonEmptyDirectory ==
    \A p \in CallPaths :
        LET v == validate_path(p)
        IN  (v.ok /\ IsDir(fs, Resolve(v.full)) /\ Children(fs, Resolve(v.full)) # {}) =>
                LET n == Resolve(v.full)
                    plain == delete_directory(fs, p, FALSE)
                    rec == delete_directory(fs, p, TRUE)
                IN  /\ plain.msg = "Error: Directory is not empty"
                    /\ plain.fs = fs
                    /\ rec.msg = "deleted successfully"
                    /\ Below(rec.fs, n) = {}
                    /\ \A m \in DOMAIN fs : ~IsPrefix(n, m) => (m \in DOMAIN rec.fs /\ rec.fs[m] = fs[m])

\* A non-recursive delete_directory has just been refused on a directory with entries.
C7_Witness == fsOp = "delete_directory" /\ fsResult.msg = "Error: Directory is not empty"

(***************************************************************************)
(* The git tools: git_server.py (git_execute, run_git_command returning    *)
(* text) and developer_server.py (run_git_command returning a dict)        *)
(***************************************************************************)
\* The chunks command lines are built from.
CmdChunks == {"status", "push", "-s", " ", ";", "$", ".", ">"}

\* Longest command line, in chunks.
MaxCmdLen == 3

Commands == UNION {[1..n -> CmdChunks] : n \in 0..MaxCmdLen}

\* GIT_REPO_PATH and BASE_DIR are paths on drive C: (git_server.py 11,
\* developer_server.py 14), so path strings follow ntpath.  BASE_DIR above leaves the
\* drive out; a caller that spells it writes the segment "C:" first, as in
\* "C:/home/base2".
Drive == <<"C:">>

\* A directory next to the base directory whose name begins with the base
\* directory's name.
Base2 == <<"base", "2">>

\* ntpath.splitdrive(p)[0] is not empty.
HasDrive(p) == p # <<>> /\ p[1] = Drive

\* The path with the drive left out, as BASE_DIR is written.
DriveElided(p) == IF HasDrive(p) THEN <<Empty>> \o Tail(p) ELSE p

\* ntpath.normpath: the drive is kept and the rest normalized.
NtNormpath(p) ==
    IF HasDrive(p) THEN <<Drive>> \o Tail(Normpath(DriveElided(p))) ELSE Normpath(p)

\* ntpath.join(a, p): a rooted p with a drive replaces a.
NtJoin(a, p) == IF HasDrive(p) THEN p ELSE PathJoin(a, p)

\* The directory the operating system resolves a path on drive C: to.
NtResolve(p) == Resolve(DriveElided(p))

\* subpath arguments: None, "a", "..", "a/a", "/a", "a/../..", "C:/home/base2",
\* "C:/home".
NoSubpath == <<>>
GitSubpaths ==
    {NoSubpath, <<NameA>>, <<DotDot>>, <<NameA, NameA>>, <<Empty, NameA>>,
     <<NameA, DotDot, DotDot>>, <<Drive, Home, Base2>>, <<Drive, Home>>}

\* What running the git binary can do: exit 0 (with or without a warning on stderr),
\* exit non-zero, or fail to start.
GitRuns ==
    {[started |-> TRUE, returncode |-> 0, stdout |-> <<"out", "LF">>, stderr |-> <<>>],
     [started |-> TRUE, returncode |-> 0, stdout |-> <<"out", "LF">>,
      stderr |-> <<"warning", "LF">>],
     [started |-> TRUE, returncode |-> 128, stdout |-> <<>>, stderr |-> <<"fatal", "LF">>],
     [started |-> FALSE, returncode |-> 0, stdout |-> <<>>, stderr |-> <<>>]}

NoSpawn == <<>>

Whitespace == {" ", "LF"}

\* str.strip().
RECURSIVE LStrip(_)
LStrip(t) == IF t # <<>> /\ Head(t) \in Whitespace THEN LStrip(Tail(t)) ELSE t

RECURSIVE RStrip(_)
RStrip(t) ==
    IF t # <<>> /\ t[Len(t)] \in Whitespace THEN RStrip(SubSeq(t, 1, Len(t) - 1)) ELSE t

Strip(t) == RStrip(LStrip(t))

\* str.split(): the maximal runs of non-whitespace.
RECURSIVE SplitWords(_, _, _)
SplitWords(rest, cur, acc) ==
    IF rest = <<>> THEN (IF cur = <<>> THEN acc ELSE Append(acc, cur))
    ELSE IF Head(rest) \in Whitespace
      THEN SplitWords(Tail(rest), <<>>, IF cur = <<>> THEN acc ELSE Append(acc, cur))
    ELSE SplitWords(Tail(rest), Append(cur, Head(rest)), acc)

Split(command) == SplitWords(command, <<>>, <<>>)

\* A path string as one string: its segments joined by "/".
RECURSIVE Flat(_)
Flat(p) ==
    IF p = <<>> THEN <<>>
    ELSE IF Len(p) = 1 THEN p[1]
    ELSE p[1] \o <<"/">> \o Flat(Tail(p))

\* a.startswith(b) on path strings.
StrStartsWith(a, b) == IsPrefix(Flat(b), Flat(a))

\* norm_path.startswith('..')
StartsWithDotDot(p) == IsPrefix(<<".", ".">>, Flat(p))

\* The working directory run_git_command settles on for a subpath, or its refusal.
\* (Both servers: git_server.py 39-58, developer_server.py 59-78.)
WorkingDir(f, subpath) ==
    IF subpath = NoSubpath \/ subpath = <<Empty>> THEN [ok |-> TRUE, cwd |-> BaseNode]
    ELSE LET norm_path == NtNormpath(subpath)
             working_dir == NtJoin(BASE_DIR, norm_path)
         IN  IF StartsWithDotDot(norm_path) \/ StartsWithSlash(norm_path)
               THEN [ok |-> FALSE, err |-> "Invalid path"]
             ELSE IF ~Exists(f, NtResolve(working_dir))
               THEN [ok |-> FALSE, err |-> "Path does not exist"]
             ELSE IF ~StrStartsWith(Normpath(DriveElided(working_dir)), Normpath(BASE_DIR))
               THEN [ok |-> FALSE, err |-> "Path is outside the repository"]
             ELSE [ok |-> TRUE, cwd |-> NtResolve(working_dir)]

GitText(msg, code, text) == [kind |-> "text", msg |-> msg, code |-> code, text |-> text]
GitRaised(msg) == [kind |-> "raised", msg |-> msg, code |-> 0, text |-> <<>>]
GitPending == [kind |-> "pending", msg |-> "", code |-> 0, text |-> <<>>]

\* run_git_command with check=True: a non-zero exit raises CalledProcessError past
\* the handler.
run_git_command_checked(f, command, args, subpath, run) ==
    LET w == WorkingDir(f, subpath) IN
    IF ~w.ok THEN [result |-> GitText(w.err, 0, <<>>), spawn |-> NoSpawn]
    ELSE IF ~run.started
      THEN [result |-> GitText("Failed to execute command", 0, <<>>), spawn |-> NoSpawn]
    ELSE [result |-> IF run.returncode = 0
                       THEN GitText("stdout", 0, Strip(run.stdout))
                       ELSE GitRaised("CalledProcessError"),
          spawn |-> [cmd |-> <<<<"git">>, command>> \o args, cwd |-> w.cwd]]

\* git_server.run_git_command: [result, spawn].
run_git_command(f, command, args, subpath, run) ==
    LET w == WorkingDir(f, subpath) IN
    IF ~w.ok THEN [result |-> GitText(w.err, 0, <<>>), spawn |-> NoSpawn]
    ELSE IF ~run.started
      THEN [result |-> GitText("Failed to execute command", 0, <<>>), spawn |-> NoSpawn]
    ELSE [result |-> IF run.returncode = 0
                       THEN GitText("stdout", 0, Strip(run.stdout))
                       ELSE GitText("Error (code)", run.returncode, Strip(run.stderr)),
          spawn |-> [cmd |-> <<<<"git">>, command>> \o args, cwd |-> w.cwd]]

\* re.search of the character class ; & | backquote $ in command, or '..' in command
Unsafe(command) ==
    \/ \E i \in 1..Len(command) : command[i] \in {";", "&", "|", "backquote", "$"}
    \/ \E i \in 1..(Len(command) - 1) : command[i] = "." /\ command[i + 1] = "."

allowed_commands ==
    {<<"version">>, <<"status">>, <<"log">>, <<"add">>, <<"commit">>, <<"branch">>,
     <<"checkout">>, <<"init">>, <<"diff">>, <<"show">>, <<"remote">>, <<"fetch">>,
     <<"config">>, <<"tag">>, <<"ls-files">>}

\* git_execute without its allow-list.
git_execute_any(f, command, subpath, run) ==
    IF Unsafe(command)
      THEN [result |-> GitText("Error: Potentially unsafe command detected", 0, <<>>),
            spawn |-> NoSpawn]
    ELSE IF Split(command) = <<>>
      THEN [result |-> GitText("Error: Empty command", 0, <<>>), spawn |-> NoSpawn]
    ELSE run_git_command(f, Head(Split(command)), Tail(Split(command)), subpath, run)

\* git_server.git_execute
git_execute(f, command, subpath, run) ==
    IF Unsafe(command)
      THEN [result |-> GitText("Error: Potentially unsafe command detected", 0, <<>>),
            spawn |-> NoSpawn]
    ELSE LET parts == Split(command) IN
         IF parts = <<>>
           THEN [result |-> GitText("Error: Empty command", 0, <<>>), spawn |-> NoSpawn]
         ELSE IF Head(parts) \notin allowed_commands
           THEN [result |-> GitText("Error: Command is not allowed", 0, <<>>),
                 spawn |-> NoSpawn]
         ELSE run_git_command(f, Head(parts), Tail(parts), subpath, run)

\* developer_server.run_git_command: the dict it returns, and the spawn.
dev_run_git_command(f, args, subpath, run) ==
    LET w == WorkingDir(f, subpath) IN
    IF ~w.ok THEN [result |-> [success |-> FALSE, error |-> w.err], spawn |-> NoSpawn]
    ELSE IF ~run.started
      THEN [result |-> [success |-> FALSE, error |-> "Failed to execute git command"],
            spawn |-> NoSpawn]
    ELSE [result |-> [success |-> run.returncode = 0,
                      stdout |-> Strip(run.stdout),
                      stderr |-> Strip(run.stderr),
                      exit_code |-> run.returncode],
          spawn |-> [cmd |-> <<<<"git">>>> \o args, cwd |-> w.cwd]]

\* result.get('error', result['stderr']): the default is evaluated first, so a dict
\* without 'stderr' raises KeyError.
GetErrorOrStderr(result, failure) ==
    IF "stderr" \notin DOMAIN result THEN GitRaised("KeyError: 'stderr'")
    ELSE IF "error" \in DOMAIN result THEN GitText(failure, 0, <<>>)
    ELSE GitText(failure, result.exit_code, result.stderr)

\* developer_server.git_init
dev_git_init(f, subpath, run) ==
    LET r == dev_run_git_command(f, <<<<"init">>>>, subpath, run) IN
    [result |-> IF r.result.success
                  THEN GitText("Git repository initialized successfully", 0, r.result.stdout)
                  ELSE GetErrorOrStderr(r.result, "Failed to initialize git repository"),
     spawn |-> r.spawn]

\* developer_server.git_status (its porcelain parsing left as the stdout it parses)
dev_git_status(f, subpath, run) ==
    LET r == dev_run_git_command(f, <<<<"status">>, <<"--porcelain">>>>, subpath, run) IN
    [result |-> IF ~r.result.success
                  THEN GetErrorOrStderr(r.result, "Failed to get git status")
                  ELSE GitText("Git Repository Status", 0, r.result.stdout),
     spawn |-> r.spawn]

(***************************************************************************)
(* SpecGit: one tool call, from the request to the handler's return        *)
(***************************************************************************)
\* The repository: the base directory with one sub-directory "a", and the directory
\* "base2" next to it.
GitTree ==
    [n \in {Root, <<Home>>, BaseNode, BaseNode \o <<NameA>>, <<Home, Base2>>} |-> DirNode]

InitGit ==
    /\ fs = GitTree
    /\ fsOp = "none"
    /\ fsResult = NoReply
    /\ touched = {}
    /\ \/ gitOp = "git_execute" /\ gitArg \in [command : Commands, subpath : GitSubpaths]
       \/ gitOp \in {"git_init", "git_status"}
            /\ gitArg \in [command : {<<>>}, subpath : GitSubpaths]
    /\ gitResult = GitPending
    /\ lastSpawn = NoSpawn
    /\ ExecIdle
    /\ BoxIdle /\ GhIdle /\ DocIdle /\ RestIdle

GitExecute ==
    /\ gitOp = "git_execute" /\ gitResult = GitPending
    /\ \E run \in GitRuns :
        LET r == git_execute(fs, gitArg.command, gitArg.subpath, run)
        IN  gitResult' = r.result /\ lastSpawn' = r.spawn
    /\ UNCHANGED <<fsVars, gitOp, gitArg, execVars, laterVars>>

GitInit ==
    /\ gitOp = "git_init" /\ gitResult = GitPending
    /\ \E run \in GitRuns :
        LET r == dev_git_init(fs, gitArg.subpath, run)
        IN  gitResult' = r.result /\ lastSpawn' = r.spawn
    /\ UNCHANGED <<fsVars, gitOp, gitArg, execVars, laterVars>>

GitStatus ==
    /\ gitOp = "git_status" /\ gitResult = GitPending
    /\ \E run \in GitRuns :
        LET r == dev_git_status(fs, gitArg.subpath, run)
        IN  gitResult' = r.result /\ lastSpawn' = r.spawn
    /\ UNCHANGED <<fsVars, gitOp, gitArg, execVars, laterVars>>

NextGit == GitExecute \/ GitInit \/ GitStatus

SpecGit == InitGit /\ [][NextGit]_vars

\* C3: whatever the arguments and whatever git does, a handler returns a text or
\* JSON payload: no exception escapes from a handler to the transport layer.
C3_NoExceptionEscapes == gitResult.kind # "raised"

ShellMeta == {";", "&", "|", "backquote", "$"}

Rejection(msg) ==
    msg \in {"Error: Potentially unsafe command detected", "Error: Empty command",
             "Error: Command is not allowed"}

MaxExecutions == 3

ExecutionIds == 1..MaxExecutions

FileServers == {"python_server", "python_server_docker"}
RecordServers == FileServers \cup {"python_server_wsl"}
Servers == RecordServers \cup {"python_execution_server"}

\* What the executed program can do: exit 0 with output, exit 1 with errors, or
\* outlive the timeout.
Runs ==
    {[timed_out |-> FALSE, returncode |-> 0, stdout |-> <<"out">>, stderr |-> <<>>],
     [timed_out |-> FALSE, returncode |-> 1, stdout |-> <<>>, stderr |-> <<"err">>],
     [timed_out |-> TRUE, returncode |-> 0, stdout |-> <<>>, stderr |-> <<>>]}

\* mappings[execution_id] = info
Put(mappings, execution_id, info) ==
    [x \in DOMAIN mappings \cup {execution_id} |->
        IF x = execution_id THEN info ELSE mappings[x]]

\* A load that always takes the JSONDecodeError branch.
load_nothing(file) == NoMappings

\* save_execution_result, first half: mappings = json.load(f)
load_mappings(file) == file

\* A dump of the new record alone.
dump_record_only(mappings, execution_id, info) == Put(NoMappings, execution_id, info)

\* save_execution_result, second half: mappings[execution_id] = info; json.dump(mappings, f)
dump_mappings(mappings, execution_id, info) == Put(mappings, execution_id, info)

\* run_wsl_command that hands back the process's own code on a timeout.
run_wsl_command_raw(run) ==
    [stdout |-> run.stdout, stderr |-> run.stderr, exit_code |-> run.returncode,
     alive |-> run.timed_out]

\* python_server_wsl.run_wsl_command: (stdout, stderr, exit code).  alive: the process
\* it created is still running when it returns (asyncio.wait_for gives up on
\* process.communicate(); nothing kills or awaits the process).
run_wsl_command(run) ==
    IF run.timed_out
      THEN [stdout |-> <<>>, stderr |-> <<"Command timed out">>, exit_code |-> -1,
            alive |-> TRUE]
      ELSE [stdout |-> run.stdout, stderr |-> run.stderr, exit_code |-> run.returncode,
            alive |-> FALSE]

\* stdout or "(No output)"
OrElse(text, placeholder) == IF text = <<>> THEN placeholder ELSE text

\* The text execute_python_file returns once the record is saved.
ExecutionText(id, info, h) ==
    ExecReply("Execution ID", id, TRUE, info.exit_code,
              OrElse(info.stdout, <<"(No output)">>), OrElse(info.stderr, <<"(No errors)">>),
              ~info.finished, h)

\* get_execution_results over the stored mappings.
get_execution_results(mappings, execution_id) ==
    IF execution_id \notin DOMAIN mappings
      THEN ExecReply("Error: No execution found with ID", execution_id, FALSE, 0,
                     <<>>, <<>>, FALSE, "none")
    ELSE LET execution_info == mappings[execution_id] IN
         ExecReply("Execution ID", execution_id, TRUE, execution_info.exit_code,
                   OrElse(execution_info.stdout, <<"(No output)">>),
                   OrElse(execution_info.stderr, <<"(No errors)">>), FALSE, "none")

(***************************************************************************)
(* SpecExec: executions, the two halves of save_execution_result, lookups  *)
(***************************************************************************)
InitExec ==
    /\ FsIdle
    /\ GitIdle
    /\ mapFile = NoMappings
    /\ saved = NoMappings
    /\ nextId = 1
    /\ writer = [h \in Handlers |-> IdleWriter]
    /\ execOp = "none"
    /\ execReply = NoExecReply
    /\ server \in Servers
    /\ transport \in {"stdio", "sse"}
    /\ running = {}
    /\ BoxIdle /\ GhIdle /\ DocIdle /\ RestIdle

Quiet == \A h \in Handlers : writer[h].pc = "idle"

\* stdio is strictly request-then-response.
MayStart == transport = "sse" \/ Quiet

\* python_server / python_server_docker execute_python_file, up to the call of
\* save_execution_result.
Execute(h) ==
    /\ server \in FileServers
    /\ writer[h].pc = "idle"
    /\ MayStart
    /\ nextId <= MaxExecutions
    /\ nextId' = nextId + 1
    /\ \E run \in Runs :
        IF run.timed_out /\ server = "python_server"
          THEN /\ execOp' = "execute_python_file"
               /\ execReply' = ExecReply("Error: Execution timed out", nextId, FALSE, 0,
                                         <<>>, <<>>, TRUE, h)
               /\ UNCHANGED writer
          ELSE /\ writer' = [writer EXCEPT ![h] =
                    [pc |-> "read", id |-> nextId,
                     info |-> [exit_code |-> IF run.timed_out THEN -1 ELSE run.returncode,
                               stdout |-> run.stdout, stderr |-> run.stderr,
                               finished |-> ~run.timed_out],
                     mappings |-> NoMappings]]
               /\ UNCHANGED <<execOp, execReply>>
    /\ UNCHANGED <<fsVars, gitVars, mapFile, saved, server, transport, running, laterVars>>

ReadMappings(h) ==
    /\ writer[h].pc = "read"
    /\ writer' = [writer EXCEPT ![h].pc = "write", ![h].mappings = load_mappings(mapFile)]
    /\ UNCHANGED <<fsVars, gitVars, mapFile, saved, nextId, execOp, execReply, server,
                   transport, running, laterVars>>

WriteMappings(h) ==
    /\ writer[h].pc = "write"
    /\ mapFile' = dump_mappings(writer[h].mappings, writer[h].id, writer[h].info)
    /\ saved' = Put(saved, writer[h].id, writer[h].info)
    /\ writer' = [writer EXCEPT ![h].pc = "idle"]
    /\ execOp' = "execute_python_file"
    /\ execReply' = ExecutionText(writer[h].id, writer[h].info, h)
    /\ UNCHANGED <<fsVars, gitVars, nextId, server, transport, running, laterVars>>

\* python_server_wsl.execute_python_file: the record goes into the in-memory
\* state.execution_results (mapFile here) with no await in between.
ExecuteWsl(h) ==
    /\ server = "python_server_wsl"
    /\ nextId <= MaxExecutions
    /\ nextId' = nextId + 1
    /\ \E run \in Runs :
        LET r == run_wsl_command(run)
            info == [exit_code |-> r.exit_code, stdout |-> r.stdout, stderr |-> r.stderr,
                     finished |-> ~run.timed_out]
        IN  /\ mapFile' = Put(mapFile, nextId, info)
            /\ saved' = Put(saved, nextId, info)
            /\ execReply' = ExecutionText(nextId, info, h)
            /\ running' = IF r.alive THEN running \cup {nextId} ELSE running
    /\ execOp' = "execute_python_file"
    /\ UNCHANGED <<fsVars, gitVars, writer, server, transport, laterVars>>

\* python_execution_server.execute_python_code
ExecuteCode(h) ==
    /\ server = "python_execution_server"
    /\ \E run \in Runs, execution_id \in ExecutionIds :
        execReply' = IF run.timed_out
                       THEN ExecReply("error: Execution timed out", execution_id, FALSE, 0,
                                      <<>>, <<>>, TRUE, h)
                       ELSE ExecReply("result", execution_id, TRUE, run.returncode,
                                      run.stdout, run.stderr, FALSE, h)
    /\ execOp' = "execute_python_code"
    /\ UNCHANGED <<fsVars, gitVars, mapFile, saved, nextId, writer, server, transport, running,
                   laterVars>>

Lookup ==
    /\ server \in RecordServers
    /\ MayStart
    /\ \E execution_id \in ExecutionIds :
        execReply' = get_execution_results(mapFile, execution_id)
    /\ execOp' = "get_execution_results"
    /\ UNCHANGED <<fsVars, gitVars, mapFile, saved, nextId, writer, server, transport, running,
                   laterVars>>

\* Environment: a process no handler waits for any more ends by itself.
ProcessExits ==
    /\ \E id \in running : running' = running \ {id}
    /\ UNCHANGED <<fsVars, gitVars, mapFile, saved, nextId, writer, execOp, execReply, server,
                   transport, laterVars>>

NextExec ==
    \/ \E h \in Handlers :
         Execute(h) \/ ReadMappings(h) \/ WriteMappings(h) \/ ExecuteWsl(h) \/ ExecuteCode(h)
    \/ Lookup
    \/ ProcessExits

SpecExec == InitExec /\ [][NextExec]_vars

\* C8: in sequential operation, every id under which a record has been saved is
\* answered by get_execution_results with the exit code, stdout and stderr that were
\* saved (an empty stream shown as its placeholder line), whatever executions and
\* lookups came later; every id never saved is answered "No execution found with ID".
C8_SavedRecordRetrievable ==
    (transport = "stdio" /\ server \in RecordServers) =>
        \A X \in ExecutionIds :
            LET r == get_execution_results(mapFile, X) IN
            IF X \in DOMAIN saved
              THEN /\ r.msg = "Execution ID"
                   /\ r.id = X
                   /\ r.has_exit_code /\ r.exit_code = saved[X].exit_code
                   /\ r.stdout = (IF saved[X].stdout = <<>> THEN <<"(No output)">>
                                  ELSE saved[X].stdout)
                   /\ r.stderr = (IF saved[X].stderr = <<>> THEN <<"(No errors)">>
                                  ELSE saved[X].stderr)
              ELSE r.msg = "Error: No execution found with ID"

\* The first record has just been looked up after two later executions were saved.
C8_Witness ==
    /\ transport = "stdio"
    /\ server = "python_server"
    /\ execOp = "get_execution_results"
    /\ execReply.msg = "Execution ID"
    /\ execReply.id = 1
    /\ DOMAIN saved = {1, 2, 3}

\* C9: save_execution_result is an unlocked read-modify-write: what the last completed
\* save left in the file is the mappings that save read, plus its own record, whatever
\* other saves wrote in between; so with two concurrent writers a state is reachable in
\* which both saves have completed and the file holds only one of the two records.
C9_SaveWritesBackItsSnapshot ==
    \A h \in Handlers :
        (/\ server \in FileServers
         /\ execOp = "execute_python_file"
         /\ execReply.msg = "Execution ID"
         /\ execReply.handler = h
         /\ writer[h].pc = "idle") =>
            /\ DOMAIN mapFile = DOMAIN writer[h].mappings \cup {writer[h].id}
            /\ mapFile[writer[h].id] = writer[h].info
            /\ \A x \in DOMAIN writer[h].mappings \ {writer[h].id} :
                 mapFile[x] = writer[h].mappings[x]

\* The lost update: two saves have completed, one record is in the file.
C9_LostUpdate ==
    /\ server \in FileServers
    /\ \A h \in Handlers : writer[h].pc = "idle"
    /\ Cardinality(DOMAIN saved) = 2
    /\ Cardinality(DOMAIN mapFile) = 1

C11_TimedOutProcessKilled ==
    (execOp \in {"execute_python_file", "execute_python_code"} /\ execReply.timed_out) =>
        execReply.id \notin running

(***************************************************************************)
(* The container servers: python_server_docker.py (Docker SDK) and         *)
(* python_server_wsl.py (docker through wsl, with a lifespan)              *)
(***************************************************************************)
\* How many nested calls of execute_python_file the interpreter's recursion limit
\* (sys.getrecursionlimit(), 1000 by default) leaves room for, scaled down.
MaxRunAttempts == 3

\* A counter of the invocation's external calls; it stops at the bound.
Count(n) == IF n < MaxRunAttempts THEN n + 1 ELSE n

\* An interpreter without a recursion limit.
reenter_always(depth) == TRUE

\* "return execute_python_file(...)" inside the handler: the nested call starts
\* unless the recursion limit is reached, in which case it raises RecursionError.
reenter(depth) == depth < MaxRunAttempts

ContainerIds == {"c1", "c2"}

\* A container carrying the label created_by=python_mcp_server.  old: its age exceeds
\* 2 * CONTAINER_TIMEOUT.
ContainerStates == [status : {"running", "exited"}, old : BOOLEAN]

PriorContainers == UNION {[S -> ContainerStates] : S \in SUBSET ContainerIds}

IdleInv == [pc |-> "idle", runs |-> 0, pulls |-> 0, okPulls |-> 0]

BoxReply(msg, failure, ran) == [msg |-> msg, failure |-> failure, ran |-> ran]

NoBoxReply == BoxReply("none", FALSE, FALSE)

\* WSL_DISTRIBUTIONS = ["Ubuntu", ""]: the empty string names the default distribution.
WSL_DISTRIBUTIONS == <<"Ubuntu", "">>

\* bool(state.wsl_distro): None and the empty string are false.
Truthy(distro) == distro \notin {"None", ""}

\* find_working_wsl_distro: the first entry of WSL_DISTRIBUTIONS that passes
\* test_wsl_connection, or None.
find_working_wsl_distro(working) ==
    LET hits == {i \in 1..Len(WSL_DISTRIBUTIONS) : WSL_DISTRIBUTIONS[i] \in working}
    IN  IF hits = {} THEN "None"
        ELSE WSL_DISTRIBUTIONS[CHOOSE i \in hits : \A j \in hits : i <= j]

NewAppState == [wsl_distro |-> "None", docker_available |-> FALSE,
                docker_image_available |-> FALSE]

NotPersisted == [written |-> FALSE, ids |-> {}]

\* python_server_docker.cleanup_old_containers: the containers left, and the ones
\* removed.  failing: the containers whose remove raises APIError.
docker_cleanup(up, cs, failing) ==
    IF ~up THEN [left |-> cs, removed |-> {}]
    ELSE LET gone == DOMAIN cs \ failing
         IN  [left |-> [c \in DOMAIN cs \cap failing |->
                          IF cs[c].status = "running" /\ cs[c].old
                            THEN [cs[c] EXCEPT !.status = "exited"] ELSE cs[c]],
              removed |-> {[id |-> c, old |-> cs[c].old, status |-> cs[c].status] :
                             c \in gone}]

\* python_server_wsl.cleanup_old_containers: docker ps -a with the label filter, then
\* docker rm -f of every id listed.
wsl_cleanup(up, cs) ==
    IF ~up THEN [left |-> cs, removed |-> {}]
    ELSE [left |-> <<>>,
          removed |-> {[id |-> c, old |-> cs[c].old, status |-> cs[c].status] :
                         c \in DOMAIN cs}]

\* A lifespan that does not wait for the task.
no_wait(task) == {task}

\* app_lifespan, finally: asyncio.wait_for(initialization_task, timeout=5.0) if the
\* task is not done: it ends in time, or the wait times out and cancels it.
shutdown_wait(task) == IF task = "running" THEN {"done", "cancelled"} ELSE {task}

(***************************************************************************)
(* SpecBox                                                                 *)
(***************************************************************************)
InitBox ==
    /\ FsIdle /\ GitIdle /\ ExecIdle /\ GhIdle /\ DocIdle /\ RestIdle
    /\ variant \in {"python_server_docker", "python_server_wsl"}
    /\ phase = "starting"
    /\ client = "unset"
    /\ appState = NewAppState
    /\ probeTask = "none"
    /\ probeFailed = FALSE
    /\ engineUp \in BOOLEAN
    /\ imagePresent \in BOOLEAN
    /\ containers \in PriorContainers
    /\ inv = IdleInv
    /\ boxOp = "none"
    /\ boxReply = NoBoxReply
    /\ cleaned = {}
    /\ results = {}
    /\ persisted = NotPersisted
    /\ wslWorking \in IF variant = "python_server_wsl"
                       THEN SUBSET {WSL_DISTRIBUTIONS[i] : i \in 1..Len(WSL_DISTRIBUTIONS)}
                       ELSE {{}}

otherThanBox == <<fsVars, gitVars, execVars, ghVars, docVars, restVars>>

\* python_server_docker, module level: docker.from_env() then docker_client.ping()
\* inside try / except DockerException.
DockerStartup ==
    /\ variant = "python_server_docker" /\ phase = "starting"
    /\ phase' = "serving"
    /\ IF engineUp
         THEN client' = "client" /\ probeFailed' = FALSE
         ELSE /\ probeFailed' = TRUE
              /\ \/ client' = "None"      \* from_env raised: docker_client stays None
                 \/ client' = "client"    \* ping raised: docker_client stays assigned
    /\ UNCHANGED <<appState, probeTask, engineUp, imagePresent, containers, inv, boxOp,
                   boxReply, cleaned, results, persisted, variant, wslWorking, otherThanBox>>

\* python_server_docker.execute_python_file up to containers.run.
DockerExecute ==
    /\ variant = "python_server_docker" /\ phase = "serving" /\ inv.pc = "idle"
    /\ IF client = "None"
         THEN /\ boxOp' = "execute_python_file"
              /\ boxReply' = BoxReply("Error: Docker connection is not available", TRUE, FALSE)
              /\ inv' = IdleInv
              /\ UNCHANGED <<containers, cleaned>>
         ELSE /\ \E failing \in SUBSET DOMAIN containers :
                   LET r == docker_cleanup(engineUp, containers, failing)
                   IN  containers' = r.left /\ cleaned' = cleaned \cup r.removed
              /\ inv' = [IdleInv EXCEPT !.pc = "run"]
              /\ UNCHANGED <<boxOp, boxReply>>
    /\ UNCHANGED <<variant, phase, client, appState, probeTask, probeFailed, engineUp,
                   imagePresent, results, persisted, wslWorking, otherThanBox>>

\* containers.run, container.wait, logs, remove, save_execution_result, or one of the
\* except clauses.
DockerRun ==
    /\ variant = "python_server_docker" /\ inv.pc = "run"
    /\ IF ~engineUp
         THEN /\ inv' = [inv EXCEPT !.pc = "idle", !.runs = Count(@)]
              /\ boxOp' = "execute_python_file"
              /\ boxReply' = BoxReply("Error executing Python file", TRUE, FALSE)
       ELSE IF ~imagePresent
         THEN /\ inv' = [inv EXCEPT !.pc = "pull", !.runs = Count(@)]
              /\ UNCHANGED <<boxOp, boxReply>>
       ELSE /\ inv' = [inv EXCEPT !.pc = "idle", !.runs = Count(@)]
            /\ boxOp' = "execute_python_file"
            /\ \/ boxReply' = BoxReply("Execution ID", FALSE, TRUE)
               \/ boxReply' = BoxReply("Docker API error", TRUE, TRUE)
    /\ UNCHANGED <<variant, phase, client, appState, probeTask, probeFailed, engineUp,
                   imagePresent, containers, cleaned, results, persisted, wslWorking, otherThanBox>>

\* A handler that goes back to containers.run without pulling.
DockerRunAgain ==
    /\ variant = "python_server_docker" /\ inv.pc = "pull"
    /\ inv' = [inv EXCEPT !.pc = "run"]
    /\ UNCHANGED <<variant, phase, client, appState, probeTask, probeFailed, engineUp,
                   imagePresent, containers, cleaned, boxOp, boxReply, results, persisted,
                   wslWorking, otherThanBox>>

\* except docker.errors.ImageNotFound: images.pull, then execute_python_file again.
\* At the recursion limit the nested call raises RecursionError, which one of the
\* enclosing except Exception clauses turns into an error message.
DockerPull ==
    /\ variant = "python_server_docker" /\ inv.pc = "pull"
    /\ \/ /\ engineUp /\ reenter(inv.runs)
          /\ imagePresent' = TRUE
          /\ \E failing \in SUBSET DOMAIN containers :
               LET r == docker_cleanup(engineUp, containers, failing)
               IN  containers' = r.left /\ cleaned' = cleaned \cup r.removed
          /\ inv' = [inv EXCEPT !.pc = "run", !.pulls = Count(@), !.okPulls = Count(@)]
          /\ UNCHANGED <<boxOp, boxReply>>
       \/ /\ engineUp /\ ~reenter(inv.runs)
          /\ imagePresent' = TRUE
          /\ inv' = [inv EXCEPT !.pc = "idle", !.pulls = Count(@), !.okPulls = Count(@)]
          /\ boxOp' = "execute_python_file"
          /\ \/ boxReply' = BoxReply("Error: Docker image not found. Failed to pull image",
                                     TRUE, FALSE)
             \/ boxReply' = BoxReply("Error executing Python file", TRUE, FALSE)
          /\ UNCHANGED <<containers, cleaned>>
       \/ /\ inv' = [inv EXCEPT !.pc = "idle", !.pulls = Count(@)]
          /\ boxOp' = "execute_python_file"
          /\ boxReply' = BoxReply("Error: Docker image not found. Failed to pull image",
                                  TRUE, FALSE)
          /\ UNCHANGED <<imagePresent, containers, cleaned>>
    /\ UNCHANGED <<variant, phase, client, appState, probeTask, probeFailed, engineUp,
                   results, persisted, wslWorking, otherThanBox>>

\* python_server_wsl.app_lifespan up to the yield: the task is created, not awaited.
WslStartup ==
    /\ variant = "python_server_wsl" /\ phase = "starting"
    /\ phase' = "serving"
    /\ probeTask' = "running"
    /\ UNCHANGED <<variant, client, appState, probeFailed, engineUp, imagePresent,
                   containers, inv, boxOp, boxReply, cleaned, results, persisted,
                   wslWorking, otherThanBox>>

\* initialize_wsl_docker running to its end.
ProbeFinishes ==
    /\ variant = "python_server_wsl" /\ probeTask = "running" /\ phase = "serving"
    /\ probeTask' = "done"
    /\ \E pulled \in BOOLEAN :
         LET distro == find_working_wsl_distro(wslWorking)
             docker == Truthy(distro) /\ engineUp
             image == docker /\ (imagePresent \/ pulled)
             r == wsl_cleanup(docker, containers)
         IN  /\ appState' = [wsl_distro |-> distro, docker_available |-> docker,
                             docker_image_available |-> image]
             /\ probeFailed' = ~docker
             /\ imagePresent' = (imagePresent \/ image)
             /\ containers' = r.left
             /\ cleaned' = cleaned \cup r.removed
    /\ UNCHANGED <<variant, phase, client, engineUp, inv, boxOp, boxReply, results,
                   persisted, wslWorking, otherThanBox>>

\* python_server_wsl.execute_python_file
WslExecute ==
    /\ variant = "python_server_wsl" /\ phase = "serving"
    /\ boxOp' = "execute_python_file"
    /\ IF ~Truthy(appState.wsl_distro)
         THEN /\ boxReply' = BoxReply("Error: WSL is not available", TRUE, FALSE)
              /\ inv' = IdleInv
              /\ UNCHANGED <<results, imagePresent>>
       ELSE IF ~appState.docker_available
         THEN /\ boxReply' = BoxReply("Error: Docker is not available in WSL", TRUE, FALSE)
              /\ inv' = IdleInv
              /\ UNCHANGED <<results, imagePresent>>
       ELSE \E pulled \in BOOLEAN, id \in ContainerIds :
              LET pulls == IF appState.docker_image_available THEN 0 ELSE 1
                  ok == appState.docker_image_available \/ (engineUp /\ pulled)
              IN  IF ~ok
                    THEN /\ boxReply' = BoxReply("Error: Docker image not available", TRUE,
                                                 FALSE)
                         /\ inv' = [IdleInv EXCEPT !.pulls = pulls]
                         /\ UNCHANGED <<results, imagePresent>>
                    ELSE /\ boxReply' = BoxReply("Execution ID", FALSE,
                                                 engineUp /\ (imagePresent \/ pulls = 1))
                         /\ inv' = [IdleInv EXCEPT !.pulls = pulls, !.okPulls = pulls,
                                                   !.runs = 1]
                         /\ results' = results \cup {id}
                         /\ imagePresent' = (imagePresent \/ pulls = 1)
    /\ UNCHANGED <<variant, phase, client, appState, probeTask, probeFailed, engineUp,
                   containers, cleaned, persisted, wslWorking, otherThanBox>>

\* python_server_wsl.check_status: its "WSL Status" line.
CheckStatus ==
    /\ variant = "python_server_wsl" /\ phase = "serving"
    /\ boxOp' = "check_status"
    /\ boxReply' = BoxReply(IF Truthy(appState.wsl_distro)
                               THEN "WSL Status: Available"
                               ELSE "WSL Status: Not available", FALSE, FALSE)
    /\ UNCHANGED <<variant, phase, client, appState, probeTask, probeFailed, engineUp,
                   imagePresent, containers, inv, cleaned, results, persisted,
                   wslWorking, otherThanBox>>

\* app_lifespan, finally: the wait for the initialization task.
ShutdownWait ==
    /\ variant = "python_server_wsl" /\ phase = "serving"
    /\ phase' = "stopping"
    /\ probeTask' \in shutdown_wait(probeTask)
    /\ UNCHANGED <<variant, client, appState, probeFailed, engineUp, imagePresent,
                   containers, inv, boxOp, boxReply, cleaned, results, persisted,
                   wslWorking, otherThanBox>>

\* app_lifespan, finally: json.dump(state.execution_results, f)
Persist ==
    /\ variant = "python_server_wsl" /\ phase = "stopping"
    /\ phase' = "stopped"
    /\ persisted' = [written |-> TRUE, ids |-> results]
    /\ UNCHANGED <<variant, client, appState, probeTask, probeFailed, engineUp,
                   imagePresent, containers, inv, boxOp, boxReply, cleaned, results,
                   wslWorking, otherThanBox>>

\* Environment: the engine starts or stops answering; the image is deleted.
EngineChanges ==
    /\ \/ engineUp' = ~engineUp /\ UNCHANGED imagePresent
       \/ imagePresent /\ imagePresent' = FALSE /\ UNCHANGED engineUp
    /\ UNCHANGED <<variant, phase, client, appState, probeTask, probeFailed, containers,
                   inv, boxOp, boxReply, cleaned, results, persisted, wslWorking, otherThanBox>>

NextBox ==
    \/ DockerStartup \/ DockerExecute \/ DockerRun \/ DockerPull
    \/ WslStartup \/ ProbeFinishes \/ WslExecute \/ CheckStatus \/ ShutdownWait \/ Persist
    \/ EngineChanges

SpecBox == InitBox /\ [][NextBox]_vars

\* The handler's thread keeps running, and every call to the engine returns or
\* raises (the client's request timeout): a started invocation takes its next step.
SpecBoxLive == SpecBox /\ WF_vars(DockerRun) /\ WF_vars(DockerPull)

C13_CleanupRemovesOnlyOld == \A c \in cleaned : c.old

\* C14: if the probe of the container backend failed, every execute_python_file call
\* returns a failure message and runs no container.
C14_ProbeFailureFailsEveryCall ==
    (probeFailed /\ boxOp = "execute_python_file") =>
        (boxReply.failure /\ ~boxReply.ran)

\* C19: python_server_wsl serves requests while the initialization task is still
\* running; at shutdown the lifespan first waits for that task (it ends, or the wait
\* times out and cancels it) and only then writes state.execution_results to the
\* mapping file.
C19_PersistAfterWait ==
    /\ (variant = "python_server_wsl" /\ phase \in {"stopping", "stopped"}) =>
         probeTask \in {"done", "cancelled"}
    /\ persisted.written =>
         (phase = "stopped" /\ probeTask \in {"done", "cancelled"} /\ persisted.ids = results)
    /\ phase = "stopped" => persisted.written

\* A request was answered and recorded while the task ran; the shutdown wait timed out,
\* and the record was written.
C19_Witness ==
    /\ variant = "python_server_wsl"
    /\ boxOp = "execute_python_file"
    /\ probeTask = "cancelled"
    /\ persisted.written

(***************************************************************************)
(* github_server.py: the module-level client g and the tools and resources *)
(* that use it.                                                            *)
(***************************************************************************)
MaxRemoteCalls == 3

\* The fifteen tools of github_server.py.
GithubTools ==
    {"list_repos", "get_repo_info", "list_branches", "list_files", "get_file_content",
     "create_file", "update_file", "list_issues", "get_issue", "create_issue",
     "list_pull_requests", "get_pull_request", "create_pull_request",
     "search_code", "search_repositories"}

\* Its three resources.
GithubResources == {"repo_resource", "file_resource", "readme_resource"}

\* Tools that check an enumerated parameter before the first request.
CheckedParameter == {"list_repos", "list_issues", "list_pull_requests"}

\* GITHUB_TOKEN as os.getenv finds it.
Tokens == {"absent", "invalid", "valid"}

GhReply(msg, calls) == [msg |-> msg, calls |-> calls]

NotInitialized == "Error: GitHub client not initialized. Please check your GITHUB_TOKEN."

\* How a request to the GitHub API ends.
ApiOutcomes == {"ok", "GithubException", "Exception"}

\* The guard taken away: the handler goes on with whatever g holds.
client_assumed(gv) == FALSE

\* "if not g:" at the top of every tool and resource.
client_missing(gv) == gv = "None"

\* The first method call on g past the guard (g.get_user(), g.get_repo(...),
\* g.search_code(...)): a client sends a request, which ends in one of ApiOutcomes;
\* None has no such attribute and the call raises before anything is sent.
first_call(gv) ==
    IF gv = "client" THEN [outcomes |-> ApiOutcomes, requests |-> 1]
                     ELSE [outcomes |-> {"Exception"}, requests |-> 0]

\* Message of the handler op for a request that ended in outcome.  Tools have an
\* except clause for GithubException ahead of the one for Exception; repo_resource,
\* file_resource and readme_resource have the latter only.
HandlerMessage(op, outcome) ==
    CASE outcome = "ok" -> "result"
      [] outcome = "GithubException" /\ op \in GithubTools -> "GitHub API Error"
      [] OTHER -> "Error"

InitGithub ==
    /\ FsIdle /\ GitIdle /\ ExecIdle /\ BoxIdle /\ DocIdle /\ RestIdle
    /\ g = "unset"
    /\ ghOp = "none"
    /\ ghReply = "none"
    /\ ghCalls = 0

otherThanGithub == <<fsVars, gitVars, execVars, boxVars, docVars, restVars>>

\* Lines 24-37: Github(GITHUB_TOKEN) sends nothing; user.login sends the first request.
\* It succeeds only with a valid token and a reachable API; any exception sets g to None.
GithubStartup ==
    /\ g = "unset"
    /\ \E token \in Tokens, reachable \in BOOLEAN :
         g' = IF token = "valid" /\ reachable THEN "client" ELSE "None"
    /\ ghCalls' = ghCalls + 1
    /\ UNCHANGED <<ghOp, ghReply, otherThanGithub>>

\* One tool or resource call.  With the client missing the handler returns at once.
\* Otherwise a tool with an enumerated parameter may reject it before any request;
\* then the first method call on g follows, and its outcome becomes the message.
Handle ==
    \E op \in GithubTools \cup GithubResources :
        /\ g \in {"None", "client"}
        /\ ghCalls < MaxRemoteCalls
        /\ ghOp' = op
        /\ g' = g
        /\ IF client_missing(g)
             THEN /\ ghReply' = GhReply(NotInitialized, 0)
                  /\ ghCalls' = ghCalls
             ELSE \/ /\ op \in CheckedParameter
                     /\ ghReply' = GhReply("Error: Invalid parameter", 0)
                     /\ ghCalls' = ghCalls
                  \/ /\ \E outcome \in first_call(g).outcomes :
                          ghReply' = GhReply(HandlerMessage(op, outcome),
                                             first_call(g).requests)
                     /\ ghCalls' = ghCalls + first_call(g).requests
        /\ UNCHANGED otherThanGithub

NextGithub == GithubStartup \/ Handle

SpecGithub == InitGithub /\ [][NextGithub]_vars

\* C15: when the client could not be initialized at start-up (g is None), every tool
\* and every resource returns "Error: GitHub client not initialized..." and sends no
\* request to GitHub.
C15_NoClientNoRemoteCall ==
    /\ []((g = "None" /\ ghOp # "none") =>
            (ghReply.msg = NotInitialized /\ ghReply.calls = 0))
    /\ [][g = "None" => ghCalls' = ghCalls]_vars

\* Start-up failed and a resource has answered.
C15_Witness ==
    /\ g = "None"
    /\ ghOp = "readme_resource"
    /\ ghReply.msg = NotInitialized

\* C16: for every subpath argument, run_git_command (git_server and
\* developer_server) spawns git only with a working directory inside the base
\* directory; a subpath that normalizes to a location outside it (leading "..",
\* absolute path) gets an error and no process is spawned.
C16_GitRunsInsideBase ==
    /\ lastSpawn # NoSpawn => InsideBase(lastSpawn.cwd)
    /\ (gitResult # GitPending
          /\ gitArg.subpath # NoSubpath
          /\ ~InsideBase(NtResolve(NtNormpath(NtJoin(BASE_DIR, gitArg.subpath)))))
         => (lastSpawn = NoSpawn /\ gitResult.msg # "stdout")

\* The reply of a tool that was refused by the path guard: an access-denied error,
\* the tree as it was, and no file or directory looked at.
Refused(r) == AccessDenied(r.msg) /\ r.fs = fs /\ r.touched = {}

\* C17: whenever the path guard rejects a path, the file tool returns an
\* access-denied error and performs no filesystem read or write: the tree is
\* unchanged and nothing beyond the normalization of the path has been evaluated.
C17_RejectedPathTouchesNothing ==
    /\ \A p \in CallPaths :
         ~validate_path(p).ok =>
            /\ Refused(read_file(fs, p))
            /\ \A c \in Contents : Refused(write_file(fs, p, c))
            /\ Refused(delete_file(fs, p))
            /\ Refused(create_directory(fs, p))
            /\ \A recursive \in BOOLEAN : Refused(delete_directory(fs, p, recursive))
            /\ Refused(list_files(fs, p))
            /\ Refused(file_info(fs, p))
            /\ \A q \in CallPaths : Refused(copy_file(fs, p, q)) /\ Refused(copy_file(fs, q, p))
    /\ AccessDenied(fsResult.msg) => touched = {}

\* write_file has just been refused on a tree that holds files.
C17_Witness ==
    /\ fsOp = "write_file"
    /\ AccessDenied(fsResult.msg)
    /\ touched = {}
    /\ fs = UsedBase

MaxEdits == 2

\* str(file_path) of the files the tools and resources read.
DocPaths == {"README.md", "docs/guide.md"}

\* What a file can hold.
DocContents == {"v1", "v2"}

\* A file that open() cannot read (absent, or not UTF-8).
Unreadable == "unreadable"

NoDocReply == <<>>

\* The cache written on every read, hit or not.
read_file_content_fresh(cache, d, file_path) ==
    IF d[file_path] = Unreadable
      THEN [reply |-> <<"Error reading file", "">>, cache |-> cache]
    ELSE [reply |-> <<"content", d[file_path]>>,
          cache |-> [q \in DOMAIN cache \cup {file_path} |->
                        IF q = file_path THEN d[file_path] ELSE cache[q]]]

\* read_file_content: [reply, cache afterwards].
read_file_content(cache, d, file_path) ==
    IF file_path \in DOMAIN cache
      THEN [reply |-> <<"content", cache[file_path]>>, cache |-> cache]
    ELSE IF d[file_path] = Unreadable
      THEN [reply |-> <<"Error reading file", "">>, cache |-> cache]
    ELSE [reply |-> <<"content", d[file_path]>>,
          cache |-> [q \in DOMAIN cache \cup {file_path} |->
                        IF q = file_path THEN d[file_path] ELSE cache[q]]]

InitDocs ==
    /\ FsIdle /\ GitIdle /\ ExecIdle /\ BoxIdle /\ GhIdle /\ RestIdle
    /\ disk \in [DocPaths -> DocContents \cup {Unreadable}]
    /\ CONTENT_CACHE = <<>>
    /\ firstRead = <<>>
    /\ docOp = <<>>
    /\ docReply = NoDocReply
    /\ edits = 0

otherThanDocs == <<fsVars, gitVars, execVars, boxVars, ghVars, restVars>>

\* A tool or resource reads a documentation file through read_file_content.
\* firstRead keeps, apart from the cache, what the first read that opened the file
\* successfully found in it.
ReadFileContent ==
    \E file_path \in DocPaths :
        LET r == read_file_content(CONTENT_CACHE, disk, file_path)
        IN  /\ CONTENT_CACHE' = r.cache
            /\ docOp' = <<file_path>>
            /\ docReply' = r.reply
            /\ firstRead' =
                 IF file_path \notin DOMAIN firstRead /\ r.reply[1] = "content"
                   THEN [q \in DOMAIN firstRead \cup {file_path} |->
                            IF q = file_path THEN disk[file_path] ELSE firstRead[q]]
                   ELSE firstRead
            /\ UNCHANGED <<disk, edits, otherThanDocs>>

\* A documentation file is rewritten, removed or created outside the server.
FileChanges ==
    /\ edits < MaxEdits
    /\ \E file_path \in DocPaths, c \in DocContents \cup {Unreadable} :
         /\ c # disk[file_path]
         /\ disk' = [disk EXCEPT ![file_path] = c]
    /\ edits' = edits + 1
    /\ UNCHANGED <<CONTENT_CACHE, firstRead, docOp, docReply, otherThanDocs>>

NextDocs == ReadFileContent \/ FileChanges

SpecDocs == InitDocs /\ [][NextDocs]_vars

\* C20: once a file has been read successfully, every later read_file_content of its
\* path returns the content of that first successful read, whatever has become of
\* the file since: nothing invalidates the cache.
C20_CachedForProcessLife ==
    /\ \A p \in DOMAIN firstRead :
         read_file_content(CONTENT_CACHE, disk, p).reply = <<"content", firstRead[p]>>
    /\ (docOp # <<>> /\ docOp[1] \in DOMAIN firstRead) =>
         docReply = <<"content", firstRead[docOp[1]]>>

\* A read answered with the content of the first read although the file has changed.
C20_Witness ==
    /\ docOp # <<>>
    /\ docOp[1] \in DOMAIN firstRead
    /\ disk[docOp[1]] # firstRead[docOp[1]]
    /\ docReply = <<"content", firstRead[docOp[1]]>>

\* s occurs in t as a contiguous piece.
Contains(t, s) == \E i \in 0..(Len(t) - Len(s)) : SubSeq(t, i + 1, i + Len(s)) = s

\* The runs of git that started.
StartedRuns == {run \in GitRuns : run.started}

C23_EmptyPathListsBase ==
    /\ (IsDir(fs, BaseNode) /\ Children(fs, BaseNode) = {}) =>
         LET v == validate_path(<<Empty>>)
             r == list_files(fs, <<Empty>>)
         IN  /\ v.ok
             /\ Resolve(v.full) = BaseNode
             /\ r.msg = "listing" /\ r.listing = {} /\ r.fs = fs
    /\ (fsOp = "list_files" /\ touched = {BaseNode}
          /\ IsDir(fs, BaseNode) /\ Children(fs, BaseNode) = {})
         => (fsResult.msg = "listing" /\ fsResult.listing = {})

\* The empty base directory has just been listed.
C23_Witness ==
    /\ fsOp = "list_files"
    /\ touched = {BaseNode}
    /\ Children(fs, BaseNode) = {}
    /\ fsResult.msg = "listing"
    /\ fsResult.listing = {}

\* C26: in python_server_wsl, if at least one entry of WSL_DISTRIBUTIONS (the empty
\* string, the default distribution, included) passes the connection test and Docker
\* is available in it, then once the background initialization has completed
\* execute_python_file is no longer rejected with "WSL is not available" and
\* check_status reports WSL as available.
C26_WorkingDistroMakesWslAvailable ==
    [][(probeTask = "done" /\ wslWorking # {} /\ engineUp)
         => /\ WslExecute => boxReply'.msg # "Error: WSL is not available"
            /\ CheckStatus => boxReply'.msg = "WSL Status: Available"]_vars

MaxLogLines == 2

\* Largest max_results / max_lines argument.
MaxCount == 2

\* os.listdir(LOGS_DIR): two log files and a file that is not a log.
LogDirNames == {"mcp.log", "main.log", "notes.txt"}

\* filename.endswith('.log')
EndsWithLog(name) == name \in {"mcp.log", "main.log", "gone.log", "../x.log"}

\* filename.startswith('mcp')
StartsWithMcp(name) == name \in {"mcp.log"}

\* '..' in filename or '/' in filename or a backslash in filename
HasTraversal(name) == name \in {"../x.log"}

\* A line either matches the pattern searched for ("m") or does not ("x").
LogLines == {"m", "x"}

LogTexts == UNION {[1..n -> LogLines] : n \in 0..MaxLogLines}

\* The orders in which os.listdir can return the directory.
ListdirOrders ==
    {o \in [1..Cardinality(LogDirNames) -> LogDirNames] :
        \A i, j \in 1..Cardinality(LogDirNames) : i # j => o[i] # o[j]}

CfgReply(msg, lines) == [msg |-> msg, lines |-> lines]

\* The inner loop of search_logs over one file, from line i on: a match is
\* appended, and the loop is left once len(results) >= max_results.
RECURSIVE ScanLines(_, _, _, _, _)
ScanLines(lines, i, name, found, max_results) ==
    IF i > Len(lines) THEN found
    ELSE IF lines[i] = "m"
      THEN LET more == Append(found, [file |-> name, line |-> i])
           IN  IF Len(more) >= max_results THEN more
               ELSE ScanLines(lines, i + 1, name, more, max_results)
    ELSE ScanLines(lines, i + 1, name, found, max_results)

\* The outer loop of search_logs from the k-th directory entry on: after each log
\* file the loop is left if len(results) >= max_results.
RECURSIVE ScanFiles(_, _, _, _, _)
ScanFiles(l, order, k, found, max_results) ==
    IF k > Len(order) THEN found
    ELSE IF ~EndsWithLog(order[k]) THEN ScanFiles(l, order, k + 1, found, max_results)
    ELSE LET more == ScanLines(l[order[k]], 1, order[k], found, max_results)
         IN  IF Len(more) >= max_results THEN more
             ELSE ScanFiles(l, order, k + 1, more, max_results)

\* search_logs
search_logs(l, order, max_results) ==
    LET found == ScanFiles(l, order, 1, <<>>, max_results)
    IN  IF found # <<>> THEN CfgReply("results", found)
        ELSE CfgReply("No matches found for pattern", <<>>)

\* The Python slice lines[-n:].
SliceFromMinus(lines, n) ==
    LET start == IF n > 0 THEN (IF Len(lines) - n > 0 THEN Len(lines) - n ELSE 0)
                 ELSE IF -n < Len(lines) THEN -n ELSE Len(lines)
    IN  SubSeq(lines, start + 1, Len(lines))

\* read_log_file
read_log_file(l, filename, max_lines) ==
    IF HasTraversal(filename) THEN CfgReply("Error: Invalid filename", <<>>)
    ELSE IF ~EndsWithLog(filename) THEN CfgReply("Error: Only .log files are allowed", <<>>)
    ELSE IF filename \notin DOMAIN l THEN CfgReply("Error: Log file not found", <<>>)
    ELSE LET lines == l[filename]
         IN  CfgReply("content",
                      IF Len(lines) > max_lines THEN SliceFromMinus(lines, max_lines)
                      ELSE lines)

\* tail_mcp_logs: read_log_file on the most recently modified mcp*.log file.
tail_mcp_logs(l, latest_log, lines) ==
    IF {name \in DOMAIN l : StartsWithMcp(name) /\ EndsWithLog(name)} = {}
      THEN CfgReply("No MCP log files found", <<>>)
    ELSE read_log_file(l, latest_log, lines)

\* CONFIG_PATH does not exist.
Absent == "absent"

\* The texts callers pass and the file may hold; quotes left out.
Compact == "{a:1}"
Indented == "{ a: 1 }"
ConfigTexts == {"{}", Compact, Indented, "not json"}

\* json.loads
json_loads(text) ==
    IF text = "{}" THEN [ok |-> TRUE, value |-> "empty object"]
    ELSE IF text \in {Compact, Indented} THEN [ok |-> TRUE, value |-> "object a=1"]
    ELSE [ok |-> FALSE, value |-> "none"]

\* json.dump(value, f, indent=2)
json_dump(value) == IF value = "empty object" THEN "{}" ELSE Indented

\* Line 58: the f-string reads backup_path, which is bound only when CONFIG_PATH
\* existed; otherwise UnboundLocalError reaches the handler's except clause.
return_message(existed) ==
    IF existed THEN "Configuration updated successfully"
    ELSE "Error updating config file"

\* write_config: what it returns, the file afterwards, and the backup this call wrote.
\* io tells whether CONFIG_PATH can be opened for writing.
write_config(cfg, config_json, io) ==
    LET parsed == json_loads(config_json)
        copied == IF cfg # Absent THEN {cfg} ELSE {}
    IN  IF ~parsed.ok
          THEN [msg |-> "Error: Invalid JSON format", config |-> cfg, backup |-> {}]
        ELSE IF io = "denied"
          THEN [msg |-> "Error updating config file", config |-> cfg, backup |-> copied]
        ELSE [msg |-> return_message(cfg # Absent), config |-> json_dump(parsed.value),
              backup |-> copied]

InitConfig ==
    /\ FsIdle /\ GitIdle /\ ExecIdle /\ BoxIdle /\ GhIdle /\ DocIdle /\ PesIdle
    /\ config \in (ConfigTexts \cup {Absent})
    /\ backups = {}
    /\ logs \in {l \in [LogDirNames -> LogTexts] : l["notes.txt"] = <<"m">>}
    /\ cfgOp = <<>>
    /\ cfgReply = CfgReply("none", <<>>)
    /\ cfgBefore = config

otherThanConfig == <<fsVars, gitVars, execVars, boxVars, ghVars, docVars, pesVars>>

SearchLogs ==
    \E order \in ListdirOrders, max_results \in 0..MaxCount :
        /\ cfgOp' = <<"search_logs", max_results>>
        /\ cfgReply' = search_logs(logs, order, max_results)
        /\ UNCHANGED <<config, backups, logs, cfgBefore, otherThanConfig>>

ReadLogFile ==
    \E filename \in {"mcp.log", "main.log", "notes.txt", "gone.log", "../x.log"},
       max_lines \in 0..MaxCount :
        /\ cfgOp' = <<"read_log_file", max_lines, filename>>
        /\ cfgReply' = read_log_file(logs, filename, max_lines)
        /\ UNCHANGED <<config, backups, logs, cfgBefore, otherThanConfig>>

TailMcpLogs ==
    \E lines \in 0..MaxCount :
        /\ cfgOp' = <<"tail_mcp_logs", lines, "mcp.log">>
        /\ cfgReply' = tail_mcp_logs(logs, "mcp.log", lines)
        /\ UNCHANGED <<config, backups, logs, cfgBefore, otherThanConfig>>

WriteConfig ==
    \E config_json \in ConfigTexts, io \in {"ok", "denied"} :
        LET r == write_config(config, config_json, io)
        IN  /\ cfgOp' = <<"write_config", config_json>>
            /\ cfgReply' = CfgReply(r.msg, <<>>)
            /\ cfgBefore' = config
            /\ config' = r.config
            /\ backups' = r.backup
            /\ UNCHANGED <<logs, otherThanConfig>>

NextConfig == SearchLogs \/ ReadLogFile \/ TailMcpLogs \/ WriteConfig

SpecConfig == InitConfig /\ [][NextConfig]_vars

\* C21: search_logs returns no more than max_results matching lines, for every
\* max_results (0 included) and every set of log files.
C21_SearchResultsTruncated ==
    (cfgOp # <<>> /\ cfgOp[1] = "search_logs") => Len(cfgReply.lines) <= cfgOp[2]

\* The last k lines of a file, or all of it if it is shorter.
LastLines(lines, k) ==
    IF k >= Len(lines) THEN lines ELSE SubSeq(lines, Len(lines) - k + 1, Len(lines))

\* C24: read_log_file(filename, max_lines) returns at most max_lines lines, namely
\* the last max_lines lines of the file, for every max_lines >= 0 (0 included) and
\* every file length; tail_mcp_logs likewise.
C24_ReadLogReturnsLastLines ==
    (cfgOp # <<>> /\ cfgOp[1] \in {"read_log_file", "tail_mcp_logs"}
       /\ cfgReply.msg = "content")
      => /\ Len(cfgReply.lines) <= cfgOp[2]
         /\ cfgReply.lines = LastLines(logs[cfgOp[3]], cfgOp[2])

\* C27: write_config reports success exactly when the configuration file now holds
\* the supplied configuration; whenever it returns an error message the file is
\* unchanged from before the call, whether or not it existed before.
C27_ErrorLeavesConfigUnchanged ==
    (cfgOp # <<>> /\ cfgOp[1] = "write_config") =>
        IF cfgReply.msg = "Configuration updated successfully"
          THEN config = json_dump(json_loads(cfgOp[2]).value)
          ELSE config = cfgBefore

(***************************************************************************)
(* python_execution_server.py: write_python_file, execute_python_code,     *)
(* clean_execution, list_executions                                        *)
(***************************************************************************)
\* EXECUTION_DIR = <temp dir>/python_executor, as a split path.
EXECUTION_DIR == <<Empty, <<"tmp">>, <<"python_executor">>>>

\* The values create_unique_execution_id can return.
Uuids == {"uuid-1", "uuid-2"}

\* The execution_id arguments callers pass, each as the string split at the
\* separator: ids that were or could be issued, "..", ".", "" and "/home".
IdSplit(id) ==
    CASE id = ".." -> <<DotDot>>
      [] id = "." -> <<Dot>>
      [] id = "" -> <<Empty>>
      [] id = "/home" -> <<Empty, Home>>
      [] OTHER -> <<<<id>>>>

SuppliedIds == Uuids \cup {"..", ".", "", "/home"}

\* sanitize_filename: the characters outside [A-Za-z0-9_.-] are dropped.
sanitize_filename(filename) ==
    IF filename = "../script.py" THEN "..script.py" ELSE filename

SuppliedFilenames == {"script.py", "../script.py"}

\* The directory or file a path names: the components left once "." and ".."
\* are resolved from the root.
Denotes(p) == NormpathComps(p)

\* os.path.join(EXECUTION_DIR, execution_id), resolved.
execution_dir(id) == Denotes(PathJoin(EXECUTION_DIR, IdSplit(id)))

ExecRoot == Denotes(EXECUTION_DIR)

StrictlyUnderExecRoot(p) == IsPrefix(ExecRoot, p) /\ p # ExecRoot

\* The paths at or below d.
Subtree(tree, d) == {p \in tree : IsPrefix(d, p)}

PesReply(msg, ids) == [msg |-> msg, ids |-> ids]

InitPes ==
    /\ FsIdle /\ GitIdle /\ ExecIdle /\ BoxIdle /\ GhIdle /\ DocIdle /\ CfgIdle
    /\ \E extra \in SUBSET {<<Home, <<"script.py">>>>, <<<<"tmp">>, <<"script.py">>>>} :
          pesTree = {<<>>, <<<<"tmp">>>>, ExecRoot, <<Home>>} \cup extra
    /\ issued = {}
    /\ cleanedIds = {}
    /\ pesOp = <<>>
    /\ pesReply = PesReply("none", {})
    /\ removedDirs = {}
    /\ mounted = <<>>

otherThanPes == <<fsVars, gitVars, execVars, boxVars, ghVars, docVars, cfgVars>>

\* write_python_file: a fresh id, os.makedirs(execution_dir, exist_ok=True), the file.
WritePythonFile ==
    \E id \in Uuids \ issued, filename \in SuppliedFilenames :
        LET dir == execution_dir(id)
        IN  /\ pesOp' = <<"write_python_file", id, filename>>
            /\ pesTree' = pesTree \cup Prefixes(dir) \cup {Append(dir, <<sanitize_filename(filename)>>)}
            /\ issued' = issued \cup {id}
            /\ pesReply' = PesReply("written", {id})
            /\ removedDirs' = {}
            /\ mounted' = <<>>
            /\ UNCHANGED <<cleanedIds, otherThanPes>>

\* execute_python_code with the default requirements = "" (no requirements.txt
\* is written); outcome tells what became of the container.
ExecutePythonCode ==
    \E id \in SuppliedIds, filename \in SuppliedFilenames,
       outcome \in {"result", "Execution timed out"} :
        LET dir == execution_dir(id)
            file_path == Append(dir, <<sanitize_filename(filename)>>)
        IN  /\ pesOp' = <<"execute_python_code", id, filename>>
            /\ removedDirs' = {}
            /\ IF dir \notin pesTree
                 THEN /\ pesReply' = PesReply("Invalid execution ID", {})
                      /\ UNCHANGED <<pesTree>>
                      /\ mounted' = <<>>
               ELSE IF file_path \notin pesTree
                 THEN /\ pesReply' = PesReply("File not found", {})
                      /\ UNCHANGED <<pesTree>>
                      /\ mounted' = <<>>
               ELSE /\ UNCHANGED <<pesTree>>
                    /\ mounted' = <<dir>>
                    /\ pesReply' = PesReply(outcome, {id})
            /\ UNCHANGED <<issued, cleanedIds, otherThanPes>>

\* clean_execution: shutil.rmtree(execution_dir) empties the directory and then
\* removes it; the final rmdir of a path ending in "." or ".." is refused or done
\* depending on the platform (rmdir_ok).
CleanExecution ==
    \E id \in SuppliedIds, rmdir_ok \in BOOLEAN :
        LET dir == execution_dir(id)
            last == IdSplit(id)[Len(IdSplit(id))]
            gone == IF rmdir_ok THEN Subtree(pesTree, dir)
                    ELSE Subtree(pesTree, dir) \ {dir}
        IN  /\ (last \notin {Dot, DotDot}) => rmdir_ok
            /\ pesOp' = <<"clean_execution", id>>
            /\ mounted' = <<>>
            /\ IF dir \notin pesTree
                 THEN /\ pesReply' = PesReply("not found or already cleaned", {})
                      /\ removedDirs' = {}
                      /\ UNCHANGED <<pesTree, cleanedIds>>
               ELSE /\ pesTree' = pesTree \ gone
                    /\ removedDirs' = gone
                    /\ IF rmdir_ok
                         THEN /\ pesReply' = PesReply("cleaned successfully", {id})
                              /\ cleanedIds' = cleanedIds \cup {id}
                         ELSE /\ pesReply' = PesReply("Failed to clean execution", {})
                              /\ UNCHANGED cleanedIds
            /\ UNCHANGED <<issued, otherThanPes>>

\* list_executions: the directories directly below EXECUTION_DIR.
ListExecutions ==
    /\ pesOp' = <<"list_executions">>
    /\ pesReply' =
         IF ExecRoot \notin pesTree THEN PesReply("Failed to list executions", {})
         ELSE PesReply("executions",
                       {p[Len(p)][1] : p \in {q \in pesTree :
                            /\ Len(q) = Len(ExecRoot) + 1
                            /\ IsPrefix(ExecRoot, q)}})
    /\ removedDirs' = {}
    /\ mounted' = <<>>
    /\ UNCHANGED <<pesTree, issued, cleanedIds, otherThanPes>>

NextPes == WritePythonFile \/ ExecutePythonCode \/ CleanExecution \/ ListExecutions

SpecPes == InitPes /\ [][NextPes]_vars

\* C25: for every execution_id (including "..", "." and absolute paths)
\* clean_execution deletes only strict descendants of EXECUTION_DIR and
\* execute_python_code mounts only such a directory.
C25_OnlyExecutionSubdirsTouched ==
    /\ \A p \in removedDirs : StrictlyUnderExecRoot(p)
    /\ mounted # <<>> => StrictlyUnderExecRoot(mounted[1])

\* The id lifecycle of one call, for the ids in the set given.
Lifecycle(ids) ==
    (pesOp' # <<>> /\ (pesOp'[1] = "list_executions" \/ pesOp'[2] \in ids)) =>
      /\ (pesOp'[1] = "execute_python_code"
            /\ pesReply'.msg \notin {"Invalid execution ID", "File not found"})
           => pesOp'[2] \in issued \ cleanedIds
      /\ (pesOp'[1] = "execute_python_code" /\ pesOp'[2] \in cleanedIds)
           => pesReply'.msg = "Invalid execution ID"
      /\ pesOp'[1] = "list_executions" => pesReply'.ids \cap (cleanedIds \cap ids) = {}
      /\ (pesOp'[1] = "clean_execution" /\ pesOp'[2] \in cleanedIds)
           => /\ pesReply'.msg = "not found or already cleaned"
              /\ pesTree' = pesTree

\* The lifecycle holds for the ids write_python_file can return.
IssuedIdLifecycle == [][Lifecycle(Uuids)]_vars

\* C30: execute_python_code locates a file only for an id that write_python_file
\* returned and that was not cleaned; after clean_execution(id) a later
\* execute_python_code with that id returns "Invalid execution ID" and
\* list_executions no longer lists it; a second clean_execution(id) returns
\* "not found or already cleaned" and deletes nothing.
C30_ExecutionIdLifecycle == [][Lifecycle(SuppliedIds)]_vars

(***************************************************************************)
(* developer_server.py: dev_create_project_structure                       *)
(***************************************************************************)
\* The template file names, as strings split at the dots.
MainPy == <<"main", ".", "py">>
RequirementsTxt == <<"requirements", ".", "txt">>
ReadmeMd == <<"README", ".", "md">>
GitIgnore == <<".", "gitignore">>
IndexHtml == <<"index", ".", "html">>
StyleCss == <<"style", ".", "css">>
ScriptJs == <<"script", ".", "js">>
PackageJson == <<"package", ".", "json">>
IndexJs == <<"index", ".", "js">>
DotGit == <<".", "git">>

\* What the templates hold, and what a file of the user holds.
TemplateText == <<"template", "LF">>
UserBytes == <<"mine">>

ProjectTypes == {"python", "web", "node", "general"}

\* files_to_create: the names, in the order of the list, for a project type.
TemplateNames(project_type) ==
    CASE project_type = "python" -> <<MainPy, RequirementsTxt, ReadmeMd, GitIgnore>>
      [] project_type = "web" -> <<IndexHtml, StyleCss, ScriptJs, ReadmeMd>>
      [] project_type = "node" -> <<PackageJson, IndexJs, ReadmeMd, GitIgnore>>
      [] OTHER -> <<ReadmeMd, GitIgnore>>

\* f"{project_path}/{name}", split at "/".
TemplatePath(project_path, name) == project_path \o <<name>>

\* The loop over files_to_create from the i-th entry on: write_file on each, the
\* paths of those that did not answer "Error:" collected. (r ranges over the one
\* result of write_file, so that it is computed once.)
RECURSIVE CreateAllFiles(_, _, _, _, _, _)
CreateAllFiles(f, project_path, names, i, created_files, t) ==
    IF i > Len(names) THEN [fs |-> f, created_files |-> created_files, touched |-> t]
    ELSE LET file_path == TemplatePath(project_path, names[i])
         IN  CHOOSE w \in
                 {CreateAllFiles(r.fs, project_path, names, i + 1,
                                 IF IsError(r.msg) THEN created_files
                                 ELSE created_files \cup {file_path},
                                 t \cup r.touched) :
                      r \in {write_file(f, file_path, TemplateText)}} : TRUE

\* git_init(project_path): git creates the .git directory in the working
\* directory when it runs there.
git_init(f, subpath, git_works) ==
    LET w == WorkingDir(f, subpath)
    IN  IF w.ok /\ git_works /\ ~IsFile(f, w.cwd \o <<DotGit>>)
          THEN Makedirs(f, w.cwd \o <<DotGit>>)
        ELSE f

\* The file loop and the git step that follow a create_directory that gave no error.
CreateFilesAndInit(create_result, project_name, project_type, git_works) ==
    CHOOSE out \in
        {[fs |-> git_init(w.fs, project_name, git_works), msg |-> "Created project",
          created_files |-> w.created_files, touched |-> w.touched] :
            w \in {CreateAllFiles(create_result.fs, project_name,
                                  TemplateNames(project_type), 1, {},
                                  create_result.touched)}} : TRUE

\* dev_create_project_structure
dev_create_project_structure(f, project_name, project_type, git_works) ==
    CHOOSE out \in
        {IF IsError(create_result.msg)
           THEN [fs |-> create_result.fs, msg |-> create_result.msg,
                 created_files |-> {}, touched |-> create_result.touched]
         ELSE CreateFilesAndInit(create_result, project_name, project_type, git_works) :
            create_result \in {create_directory(f, project_name)}} : TRUE

\* The project directory "a" may exist already, empty or with files of the user in
\* it, or "a" may be a file.
ProjectTrees ==
    LET tree(files, dirs) ==
            [n \in {Root, <<Home>>, BaseNode} \cup files \cup dirs |->
                IF n \in files THEN FileNode(UserBytes) ELSE DirNode]
        a == BaseNode \o <<NameA>>
    IN  {tree({}, {}), tree({}, {a}), tree({a}, {}),
         tree({a \o <<ReadmeMd>>}, {a}),
         tree({a \o <<ReadmeMd>>, a \o <<MainPy>>}, {a}),
         tree({BaseNode \o <<ReadmeMd>>}, {})}

\* Most nodes of the tree at which another project is still created.
MaxNodes == 6

InitProject ==
    /\ fs \in ProjectTrees
    /\ fsOp = "none"
    /\ fsResult = NoReply
    /\ touched = {}
    /\ GitIdle /\ ExecIdle /\ BoxIdle /\ GhIdle /\ DocIdle /\ RestIdle

DevCreateProjectStructure ==
    \E project_name \in CallPaths, project_type \in ProjectTypes, git_works \in BOOLEAN :
        LET r == dev_create_project_structure(fs, project_name, project_type, git_works)
        IN  /\ Cardinality(DOMAIN fs) <= MaxNodes
            /\ fs' = r.fs
            /\ fsOp' = "dev_create_project_structure"
            /\ fsResult' = [msg |-> r.msg, text |-> <<>>, listing |-> r.created_files]
            /\ touched' = r.touched
            /\ UNCHANGED <<gitVars, execVars, laterVars>>

NextProject == DevCreateProjectStructure

SpecProject == InitProject /\ [][NextProject]_vars

\* C29: dev_create_project_structure never overwrites a file that existed before
\* the call, and when project_name names a directory or file that already exists
\* under the base directory it returns without writing any template file into it.
C29_ExistingFilesKept ==
    [][fsOp' = "dev_create_project_structure" =>
         /\ \A n \in DOMAIN fs : IsFile(fs, n) => (n \in DOMAIN fs' /\ fs'[n] = fs[n])
         /\ \A p \in CallPaths :
              (validate_path(p).ok /\ Exists(fs, Resolve(FullPath(p)))
                 /\ InsideBase(Resolve(FullPath(p))))
                => \A n \in DOMAIN fs' :
                     (IsFile(fs', n) /\ Dirname(n) = Resolve(FullPath(p)))
                       => (n \in DOMAIN fs /\ fs'[n] = fs[n])]_vars

\* A README.md of the user in the existing directory "a" has been replaced by the
\* template, next to a main.py that is still the user's.
UserReadmeOverwritten ==
    /\ fsOp = "dev_create_project_structure"
    /\ fsResult.msg = "Created project"
    /\ IsFile(fs, BaseNode \o <<NameA, MainPy>>)
    /\ fs[BaseNode \o <<NameA, MainPy>>].data = UserBytes
    /\ IsFile(fs, BaseNode \o <<NameA, ReadmeMd>>)
    /\ fs[BaseNode \o <<NameA, ReadmeMd>>].data = TranslateOnWrite(TemplateText)

====
